---- MODULE Spec2Model ----
(***************************************************************************)
(* Model of the Cerebroso bot (src/cerebroso.py): the periodic engines     *)
(* (pomodoro, reminders, habits, routine announcements, routine nudges,    *)
(* daily summaries), the command and interaction handlers that race with   *)
(* them at their await points, and the DM-blocked backoff they share.      *)
(*                                                                         *)
(* All coroutines run on one asyncio event loop: the code between two      *)
(* awaits is atomic, and every await on an outbound call is a point where  *)
(* other coroutines run.  Each engine tick is therefore split into one     *)
(* action per stretch of code between awaits, with a program counter.      *)
(* Time is the integer clock int(time.time()), in abstract units.          *)
(***************************************************************************)
EXTENDS Integers, FiniteSets, Sequences, TLC

Max(a, b) == IF a >= b THEN a ELSE b

-----------------------------------------------------------------------------
(* Bounds of the model *)

MaxTime == 4          \* the clock runs over 0..MaxTime
MaxSessions == 1      \* session objects created per behaviour
MaxReminders == 1     \* reminders created per behaviour
MaxIds == 2           \* ids handed out per kind
SumMaxDay == 1
MaxDump == 2          \* channels and reminders created while snapshots are written
BackoffMaxTime == 3   \* the clock of the two nudge loops side by side ends here
ReactMaxDay == 1
MaxMsgs == 3        \* the summary loop runs over local days 0..SumMaxDay
RemMaxTime == 3       \* the clock of the reminder engine runs over 0..RemMaxTime
DmMaxTime == 6        \* the clock of the habit and DM-status model ends here
MaxDay == 1           \* local days 0..MaxDay
MaxNotices == 3       \* public notices recorded per behaviour
MaxProgress == 2      \* habit progress counted per day

(* The DM engines count time in units of 300 s: the DM retry delay and the
   smallest nudge interval are one unit.  A local day is DayLen units. *)
HourLen == 3          \* 3600 s on the scale of DayLen: the rest after a goal reached by reaction
DmRetry == 1
DayLen == 6
RotMaxTime == 6       \* the clock of the routine model ends here
StatMaxDay == 5       \* the days of a confirmation history are 0..StatMaxDay
AchMaxDay == 2        \* the days of the achievement model are 0..AchMaxDay
MonthLen == 2         \* days of a local month in the achievement model
ThresholdChoices == {2, 3}   \* `dias` of /rotinaadmin conquista_streak
MaxVer == 3           \* the in-memory document is mutated at most MaxVer times
StatWindowBack == 3   \* timedelta(days=29) of _rotina_stats, in days of the model
TimesChoices == {<<2>>, <<0, 2, 2>>}   \* `horarios` of the admin commands
DmEpoch == 1          \* the clock at start: any time >= 300 s after the epoch
GoalChoices == {1, 2}
IntervalChoices == {1}

(* Pomodoro durations offered to /pomodoro set, in clock units *)
FocusChoices == {2}
ShortChoices == {1}
LongChoices == {2}
CycleChoices == {1, 2}

-----------------------------------------------------------------------------
VARIABLES
  now,          \* int(time.time())
  chanText,     \* get_channel(channel_id) is a discord.TextChannel
  config,       \* channel_data["config"]
  sessions,     \* the session dicts ever created, by object identity
  nextSid,      \* number of session dicts created so far
  chanSession,  \* channel_data["session"]: 0 is None, else the dict's identity
  pomoPc,       \* where pomodoro_loop is: "idle", "send_extra", "send_phase"
  advRef,       \* the dict _advance_pomodoro holds in its local `session`
  startPc,      \* where send_pomodoro_start is: "idle", "send_start"
  startRef,     \* the dict send_pomodoro_start holds in its local `session`
  resumedAt,    \* per session dict: clock of the last resume command, -1 if none
  pomoEv        \* last pomodoro step taken, for observation

\* Reminders
VARIABLES
  reminders,    \* store.data["reminders"]: the list of reminder dicts
  remPc,        \* where reminder_loop is: "idle", "fetch", "send"
  remIdx,       \* position in the list of the reminder being handled
  remNow,       \* now_ts of the running tick
  remSent       \* per reminder id: number of reminder DMs delivered

\* Window containment
VARIABLES
  winStart,     \* the `start` argument: an "HH:MM" text or None
  winEnd,       \* the `end` argument
  winTs,        \* the `ts` argument, seconds since the epoch
  winTz,        \* the UTC offset of the `tz` argument, in seconds
  winDone,      \* _is_within_window has been called
  winResult     \* what it returned

\* DM delivery status of the user, and the user's habit
VARIABLES
  dmBlocked,    \* dm_status[user]["blocked"]
  dmNextCheck,  \* dm_status[user]["next_check"]
  dmNotified,   \* dm_status[user]["notified"][channel]: ts, count, date
  notices,      \* timestamps of the public "DMs are closed" notices posted
  habit,        \* the habit dict of store.data["habits"]
  habPc,        \* where habito_loop is
  habNow,       \* now_ts of the running tick
  habBlk        \* locals of _handle_dm_blocked called by habito_loop

\* The routine, its one enrolled user, the announcement and nudge engines
VARIABLES
  rotina,         \* the routine dict: exists, active, times
  announcements,  \* rotina["announcements"]: per local day, the slots recorded
  annPublished,   \* per local day and slot: announcement messages published
  confirmations,  \* rotina["confirmations"]: per local day, the user's flag
  prefs,          \* rotina["enrollments"][user]
  annPc,          \* where rotina_anuncio_loop is: "idle", "send", "react"
  annIdx,         \* position in `times` of the entry being announced
  annTimes,       \* the `times` list the running tick iterates
  annNow,         \* now_utc of the running tick
  nudPc,          \* where rotina_dm_loop is
  nudNow,         \* now_ts of the running tick
  nudBlk,         \* locals of _handle_dm_blocked called by rotina_dm_loop
  annDeduped,     \* the last announcement tick met a due entry already recorded
  dmViewSent      \* a nudge with its RotinaDMView buttons was delivered

\* One call of _rotina_stats, for one user of the routine
VARIABLES
  stHist,         \* the days of rotina["confirmations"] the user confirmed
  stToday,        \* the day the call is made
  stPos,          \* how many of the sorted day keys the loop has visited
  stInfo,         \* per_user[user]: total, streak, last_day
  stDone          \* the loop is over and last_day was popped

pomoVars == <<chanText, config, sessions, nextSid, chanSession, pomoPc,
              advRef, startPc, startRef, resumedAt, pomoEv>>

remVars == <<reminders, remPc, remIdx, remNow, remSent>>

winVars == <<winStart, winEnd, winTs, winTz, winDone, winResult>>

dmVars == <<dmBlocked, dmNextCheck, dmNotified, notices>>

habVars == <<habit, habPc, habNow, habBlk>>

rotVars == <<rotina, announcements, annPublished, confirmations, prefs,
             annPc, annIdx, annTimes, annNow, nudPc, nudNow, nudBlk,
             annDeduped, dmViewSent>>

statVars == <<stHist, stToday, stPos, stInfo, stDone>>

\* JsonStore and the two files it writes
VARIABLES
  memVer,         \* which document JsonStore._data is: it changes on a mutation
  diskMain,       \* the file at self.path: the document in it, complete or not
  diskTmp,        \* the file at self.path + ".tmp"
  savePc,         \* where the save that holds the lock is in _write_file
  storeEv         \* the last thing that happened to the store

storeVars == <<memVer, diskMain, diskTmp, savePc, storeEv>>

\* Achievement reconciliation of one routine: _process_rotina_achievements
VARIABLES
  achDay,         \* the current local day; Month(achDay) is the local month
  achConf,        \* rotina["confirmations"]: per user, the confirmed days
  streakCfg,      \* achievements["streak_roles"]: the configured thresholds
  streakHeld,     \* per member, the thresholds whose role the member holds
  monthly,        \* achievements["monthly_top"]: role, winner_id, month
  topHeld,        \* the members who hold the monthly-top role
  achPc,          \* the role call the running reconciliation awaits
  achLoc,         \* locals of the running (or just finished) reconciliation
  achEv,          \* the last thing that happened
  achRepeat,      \* whether the running reconciliation repeats the one
                  \* before it on an unchanged state: "no", "clean" (that
                  \* one's role calls succeeded) or "failed" (one raised)
  achRunFailed,   \* a role call of this reconciliation raised
  achAnyFail      \* so far some role call raised or some lookup found nothing

achVars == <<achDay, achConf, streakCfg, streakHeld, monthly, topHeld, achPc,
             achLoc, achEv, achRepeat, achRunFailed, achAnyFail>>

\* Start-up and bookkeeping: JsonStore.load, _next_id
VARIABLES
  loadSt,         \* the snapshot file found at start-up, self._data, and how
                  \* load ended
  idSt,           \* per kind: data["_next_ids"], the ids of the entities in
                  \* the store, and the ids _next_id has returned so far
  sumSt,          \* rotina_summary_loop for one guild and one user: clock,
                  \* confirmed days, guild_state[user], summaries delivered
  taskSt,         \* the six periodic tasks of bg_tasks: where each one is,
                  \* whether its running tick met an exception
  reactSt,        \* one routine's announcements and confirmations as the
                  \* dicts the code stores, and the reactions received
  quietSt,        \* one enrolled user's prefs["quiet"] and the nudge tick
                  \* of rotina_dm_loop that tests it
  lockSt,         \* JsonStore.lock, the coroutines that called save and the
                  \* executor threads running _write_file
  dumpSt          \* the live document and the thread that serialises it

extVars == <<loadSt, idSt, sumSt, taskSt, reactSt, quietSt, lockSt, dumpSt>>

\* The variables of the parts added after the engines
auxVars == <<statVars, storeVars, achVars, extVars>>

nonStoreVars == <<now, pomoVars, remVars, winVars, dmVars, habVars, rotVars,
                  statVars, achVars, extVars>>

nonAchVars == <<now, pomoVars, remVars, winVars, dmVars, habVars, rotVars,
                statVars, storeVars, extVars>>

vars == <<now, pomoVars, remVars, winVars, dmVars, habVars, rotVars, auxVars>>

\* What the actions of one engine leave alone
nonPomoVars == <<remVars, winVars, dmVars, habVars, rotVars, auxVars>>

nonRemVars == <<pomoVars, winVars, dmVars, habVars, rotVars, auxVars>>

nonWinVars == <<now, pomoVars, remVars, dmVars, habVars, rotVars, auxVars>>

nonHabVars == <<pomoVars, remVars, winVars, rotVars, auxVars>>

nonRotVars == <<pomoVars, remVars, winVars, habVars, auxVars>>

engineVars == <<now, pomoVars, remVars, winVars, dmVars, habVars, rotVars>>

-----------------------------------------------------------------------------
(* Pomodoro: data *)

Phases == {"foco", "pausa_curta", "pausa_longa"}

\* default_pomodoro_config, scaled to the model's clock units
default_pomodoro_config ==
  [focus_seconds |-> 3, short_break_seconds |-> 1, long_break_seconds |-> 2,
   cycles_before_long |-> 2]

\* An empty dict as read through .get(): no "active", phase "foco", cycle 0.
\* last_ts = -1 stands for a missing "last_ts" key.
EmptySession ==
  [active |-> FALSE, phase |-> "foco", remaining |-> 0, cycle |-> 0,
   paused |-> FALSE, last_ts |-> -1, participant |-> FALSE]

Sids == 1..MaxSessions

\* Session dicts no variable refers to any more are unreachable in the
\* program; the model keeps them in one canonical form.
Collect(sess, live) == [s \in Sids |-> IF s \in live THEN sess[s] ELSE EmptySession]

CollectTs(ts, live) == [s \in Sids |-> IF s \in live THEN ts[s] ELSE -1]

PomoStateInit ==
  /\ chanText = TRUE
  /\ config = default_pomodoro_config
  /\ sessions = [s \in Sids |-> EmptySession]
  /\ nextSid = 0
  /\ chanSession = 0
  /\ pomoPc = "idle"
  /\ advRef = 0
  /\ startPc = "idle"
  /\ startRef = 0
  /\ resumedAt = [s \in Sids |-> -1]
  /\ pomoEv = "none"

RemStateInit ==
  /\ reminders = <<>>
  /\ remPc = "idle"
  /\ remIdx = 0
  /\ remNow = 0
  /\ remSent = [i \in 1..MaxReminders |-> 0]

\* An "HH:MM" text is held as its two fields after split(":", 1) and
\* int(); NoTime is None, an empty or a malformed text.
NoTime == <<-1, -1>>

WinStateInit ==
  /\ winStart = <<6, 0>>
  /\ winEnd = <<23, 0>>
  /\ winTs = 0
  /\ winTz = 0
  /\ winDone = FALSE
  /\ winResult = FALSE

\* _dm_status_entry of a user never seen: not blocked, nothing notified.
\* date = -1 stands for a missing notified[channel] entry.
NoNotified == [ts |-> 0, count |-> 0, date |-> -1]

DmStateInit ==
  /\ dmBlocked = FALSE
  /\ dmNextCheck = 0
  /\ dmNotified = NoNotified
  /\ notices = <<>>

NoHabit ==
  [exists |-> FALSE, active |-> FALSE, goal |-> 1, interval |-> 1,
   next_ts |-> 0, progress |-> [d \in 0..MaxDay |-> 0],
   last_message |-> FALSE]

NoBlk == [now |-> 0, count |-> 0, date |-> 0]

HabStateInit ==
  /\ habit = NoHabit
  /\ habPc = "idle"
  /\ habNow = 0
  /\ habBlk = NoBlk

Slots == 0..(DayLen - 1)

NoPrefs ==
  [enrolled |-> FALSE, dm |-> TRUE, interval |-> 1, next_ts |-> 0,
   snooze_until |-> 0]

RotStateInit ==
  /\ rotina = [exists |-> FALSE, active |-> FALSE, times |-> <<>>]
  /\ announcements = [d \in 0..MaxDay |-> {}]
  /\ annPublished = [d \in 0..MaxDay |-> [sl \in Slots |-> 0]]
  /\ confirmations = [d \in 0..MaxDay |-> FALSE]
  /\ prefs = NoPrefs
  /\ annPc = "idle"
  /\ annIdx = 0
  /\ annTimes = <<>>
  /\ annNow = 0
  /\ nudPc = "idle"
  /\ nudNow = 0
  /\ nudBlk = NoBlk
  /\ annDeduped = FALSE
  /\ dmViewSent = FALSE

NoInfo == [total |-> 0, streak |-> 0, last_day |-> -1]

StatStateInit ==
  /\ stHist = {}
  /\ stToday = 0
  /\ stPos = 0
  /\ stInfo = NoInfo
  /\ stDone = FALSE

NoFile == [ver |-> -1, complete |-> FALSE]

StoreStateInit ==
  /\ memVer = 0
  /\ diskMain = NoFile
  /\ diskTmp = NoFile
  /\ savePc = "idle"
  /\ storeEv = "start"

AchUsers == {1, 2}

NoMonthly == [role |-> FALSE, winner |-> 0, month |-> -1]

NoLoc == [user |-> 0, t |-> 0, target |-> 0, prev |-> 0, top |-> 0,
          rolled |-> 0, asked |-> {}]

AchStateInit ==
  /\ achDay = 0
  /\ achConf = [u \in AchUsers |-> {}]
  /\ streakCfg = {}
  /\ streakHeld = [u \in AchUsers |-> {}]
  /\ monthly = NoMonthly
  /\ topHeld = {}
  /\ achPc = "idle"
  /\ achLoc = NoLoc
  /\ achEv = "other"
  /\ achRepeat = "no"
  /\ achRunFailed = FALSE
  /\ achAnyFail = FALSE

\* default_state(): the top-level fields and their defaults
DefaultKeys == {"reminders", "next_ids", "settings"}

default_state ==
  [k \in DefaultKeys |->
     CASE k = "reminders" -> "none"
       [] k = "next_ids" -> "ids1"
       [] OTHER -> "tz_default"]

\* JsonStore.__init__: self._data = default_state(); no file looked at yet
LoadStateInit ==
  loadSt = [pc |-> "new", kind |-> "missing", snap |-> default_state,
            mem |-> default_state]

\* The keys of _next_ids
Kinds == {"reminder", "habit", "global_habit"}

\* default_state(): no entity, every counter at 1
IdStateInit ==
  idSt = [next |-> [k \in Kinds |-> 1], items |-> [k \in Kinds |-> <<>>],
          hist |-> [k \in Kinds |-> {}]]

\* Nothing confirmed, no summary sent, the summary loop between two ticks
SumStateInit ==
  sumSt = [t |-> 0, conf |-> {}, last |-> -1, pc |-> "idle", today |-> 0,
           delivered |-> [d \in 0..SumMaxDay |-> 0], deduped |-> FALSE]

\* The loops setup_hook starts
Engines == {"reminder", "habito", "anuncio", "dm", "summary", "pomodoro"}

\* setup_hook: every task created, none has ticked yet
TaskStateInit ==
  taskSt = [pc |-> [e \in Engines |-> "sleep"],
            failed |-> [e \in Engines |-> FALSE],
            again |-> FALSE, closed |-> FALSE]

\* An absent dict entry, and the empty dict
NoDict == [x \in {} |-> 0]

\* The routine right after /rotinaadmin criar: "announcements": {} and
\* "confirmations": {}, no message sent yet
ReactStateInit ==
  reactSt = [t |-> 0, ann |-> [d \in 0..ReactMaxDay |-> NoDict],
             conf |-> {}, msgs |-> 0, published |-> {},
             pc |-> "idle", entry |-> "", day |-> 0,
             last |-> [mid |-> 0, user |-> 0, emoji |-> FALSE, day |-> 0]]

\* The default of /rotina entrar: "quiet": {"start": "06:00", "end": "23:00"}
DefaultQuiet == [start |-> <<6, 0>>, end |-> <<23, 0>>]

\* The user right after /rotina entrar, before any nudge tick
QuietStateInit ==
  quietSt = [t |-> 1, tz |-> 0, quiet |-> DefaultQuiet, pc |-> "idle",
             nudNow |-> 0, read |-> DefaultQuiet, sent |-> FALSE,
             last |-> "none"]

\* The coroutines that call save: two periodic tasks and two handlers
Savers == {"habito", "pomodoro", "command", "reaction"}

\* JsonStore.__init__: asyncio.Lock() free, nobody saving
LockStateInit ==
  lockSt = [pc |-> [s \in Savers |-> "idle"], locked |-> FALSE,
            waiters |-> <<>>, thread |-> [s \in Savers |-> "none"],
            closed |-> FALSE]

\* A document not written: no key has a value
NoDoc == [channels |-> -1, reminders |-> -1, next_reminder |-> -1]

\* default_state(): no channel, no reminder, the next reminder id is 1
DumpStateInit ==
  dumpSt = [mem |-> [channels |-> 0, reminders |-> 0, next_reminder |-> 1],
            seen |-> {[channels |-> 0, reminders |-> 0, next_reminder |-> 1]},
            pc |-> "idle", iterSize |-> 0, tmp |-> NoDoc, disk |-> NoDoc,
            ev |-> "none"]

ExtStateInit ==
  /\ LoadStateInit /\ IdStateInit /\ SumStateInit /\ TaskStateInit
  /\ ReactStateInit /\ QuietStateInit /\ LockStateInit
  /\ DumpStateInit

AuxStateInit ==
  StatStateInit /\ StoreStateInit /\ AchStateInit /\ ExtStateInit

EngineStateInit ==
  /\ PomoStateInit /\ RemStateInit /\ WinStateInit /\ DmStateInit
  /\ HabStateInit /\ RotStateInit

OtherInit == EngineStateInit /\ AuxStateInit

PomoInit == now = 0 /\ OtherInit

-----------------------------------------------------------------------------
(* Pomodoro: _advance_pomodoro and pomodoro_loop *)

\* Configured duration of a phase: config.get("<phase>_seconds")
PhaseDuration(cfg, phase) ==
  CASE phase = "foco" -> cfg.focus_seconds
    [] phase = "pausa_curta" -> cfg.short_break_seconds
    [] phase = "pausa_longa" -> cfg.long_break_seconds

\* Variant of NextPhase that tests the cycle count before its increment.
NextPhase_PreIncrement(cfg, phase, newCycle) ==
  IF phase = "foco"
    THEN IF (newCycle - 1) % Max(1, cfg.cycles_before_long) = 0
           THEN "pausa_longa" ELSE "pausa_curta"
    ELSE "foco"

\* The phase _advance_pomodoro enters from `phase`; newCycle is the cycle
\* count after the increment made when `phase` is "foco".
NextPhase(cfg, phase, newCycle) ==
  IF phase = "foco"
    THEN IF newCycle % Max(1, cfg.cycles_before_long) = 0
           THEN "pausa_longa" ELSE "pausa_curta"
    ELSE "foco"

\* cycle after leaving `phase`: incremented on every completed focus
NextCycle(phase, cycle) == IF phase = "foco" THEN cycle + 1 ELSE cycle

\* Variant of AdvanceHead that leaves remaining as the loop set it.
AdvanceHead_NoReset(s) ==
  LET cyc == NextCycle(s.phase, s.cycle)
      ph == NextPhase(config, s.phase, cyc)
  IN [s EXCEPT !.cycle = cyc, !.phase = ph]

\* The synchronous head of _advance_pomodoro: everything up to its first
\* await channel.send.  s is the session dict as the loop left it.
AdvanceHead(s) ==
  LET cyc == NextCycle(s.phase, s.cycle)
      ph == NextPhase(config, s.phase, cyc)
  IN [s EXCEPT !.cycle = cyc, !.phase = ph,
               !.remaining = PhaseDuration(config, ph)]

\* session.get("last_ts", now_ts)
LastTs(s) == IF s.last_ts = -1 THEN now ELSE s.last_ts

\* The loop body visits the channel's session: it is a dict, active, not
\* paused, and time has passed since last_ts.
TickRuns ==
  /\ chanSession # 0
  /\ sessions[chanSession].active
  /\ ~sessions[chanSession].paused
  /\ now - LastTs(sessions[chanSession]) > 0

\* max(0, remaining - delta)
TickRemaining ==
  Max(0, sessions[chanSession].remaining - (now - LastTs(sessions[chanSession])))

\* One iteration of pomodoro_loop up to its first await (or to its end).
PomodoroTick ==
  /\ pomoPc = "idle"
  /\ TickRuns
  /\ LET sid == chanSession
         s == sessions[sid]
         delta == now - LastTs(s)
         s1 == [s EXCEPT !.remaining = TickRemaining, !.last_ts = now]
     IN IF s1.remaining <= 0
          THEN IF ~chanText
                 THEN \* _advance_pomodoro returns: no text channel
                      /\ sessions' = [sessions EXCEPT ![sid] = s1]
                      /\ pomoEv' = "no_channel"
                      /\ UNCHANGED <<pomoPc, advRef>>
                 ELSE /\ sessions' = [sessions EXCEPT ![sid] = AdvanceHead(s1)]
                      /\ advRef' = sid
                      /\ pomoPc' = IF s.phase = "pausa_longa"
                                     THEN "send_extra" ELSE "send_phase"
                      /\ pomoEv' = "advance"
          ELSE /\ sessions' = [sessions EXCEPT ![sid] = s1]
               /\ pomoEv' = "tick"
               /\ UNCHANGED <<pomoPc, advRef>>
  /\ UNCHANGED <<now, chanText, config, nextSid, chanSession, startPc,
                 startRef, resumedAt>>
  /\ UNCHANGED nonPomoVars

\* channel.send("Ciclo completo...") returns; the phase message is next.
AdvanceExtraSent ==
  /\ pomoPc = "send_extra"
  /\ pomoPc' = "send_phase"
  /\ pomoEv' = "extra_sent"
  /\ UNCHANGED <<now, chanText, config, sessions, nextSid, chanSession,
                 advRef, startPc, startRef, resumedAt>>
  /\ UNCHANGED nonPomoVars

\* channel.send(phase message) returns: last_ts is re-stamped and the held
\* dict is stored back into channel_data["session"].
AdvancePhaseSent ==
  /\ pomoPc = "send_phase"
  /\ sessions' = Collect([sessions EXCEPT ![advRef].last_ts = now],
                         {advRef, startRef})
  /\ resumedAt' = CollectTs(resumedAt, {advRef, startRef})
  /\ chanSession' = advRef
  /\ pomoPc' = "idle"
  /\ advRef' = 0
  /\ pomoEv' = "phase_sent"
  /\ UNCHANGED <<now, chanText, config, nextSid, startPc, startRef>>
  /\ UNCHANGED nonPomoVars

\* Either channel.send raises: the exception leaves _advance_pomodoro and
\* the for loop and is logged by pomodoro_loop.
AdvanceSendFails ==
  /\ pomoPc \in {"send_extra", "send_phase"}
  /\ pomoPc' = "idle"
  /\ advRef' = 0
  /\ pomoEv' = "send_failed"
  /\ sessions' = Collect(sessions, {chanSession, startRef})
  /\ resumedAt' = CollectTs(resumedAt, {chanSession, startRef})
  /\ UNCHANGED <<now, chanText, config, nextSid, chanSession, startPc,
                 startRef>>
  /\ UNCHANGED nonPomoVars

-----------------------------------------------------------------------------
(* Pomodoro: commands and buttons.  Each is issued from the channel itself,
   so the channel is a text channel when the handler runs. *)

\* send_pomodoro_start up to its first await channel.send, as called by
\* /pomodoro iniciar and by /pomodoro reiniciar (which first sets the
\* session to None): a fresh dict replaces channel_data["session"].
send_pomodoro_start ==
  /\ chanText
  /\ startPc = "idle"
  /\ nextSid < MaxSessions
  /\ LET sid == nextSid + 1
     IN /\ nextSid' = sid
        /\ sessions' = Collect([sessions EXCEPT ![sid] =
             [active |-> TRUE, phase |-> "foco",
              remaining |-> config.focus_seconds, cycle |-> 0,
              paused |-> FALSE, last_ts |-> now, participant |-> FALSE]],
             {sid, advRef})
        /\ resumedAt' = CollectTs(resumedAt, {sid, advRef})
        /\ chanSession' = sid
        /\ startRef' = sid
        /\ startPc' = "send_start"
        /\ pomoEv' = "start"
  /\ UNCHANGED <<now, chanText, config, pomoPc, advRef>>
  /\ UNCHANGED nonPomoVars

\* The "Pomodoro iniciado" message was sent: message_id is recorded and the
\* held dict is stored into channel_data["session"] again.
StartSent ==
  /\ startPc = "send_start"
  /\ chanSession' = startRef
  /\ startPc' = "idle"
  /\ startRef' = 0
  /\ pomoEv' = "start_sent"
  /\ sessions' = Collect(sessions, {startRef, advRef})
  /\ resumedAt' = CollectTs(resumedAt, {startRef, advRef})
  /\ UNCHANGED <<now, chanText, config, nextSid, pomoPc, advRef>>
  /\ UNCHANGED nonPomoVars

\* The send raised: the command fails, the session assigned before stays.
StartFails ==
  /\ startPc = "send_start"
  /\ startPc' = "idle"
  /\ startRef' = 0
  /\ pomoEv' = "start_failed"
  /\ sessions' = Collect(sessions, {chanSession, advRef})
  /\ resumedAt' = CollectTs(resumedAt, {chanSession, advRef})
  /\ UNCHANGED <<now, chanText, config, nextSid, chanSession, pomoPc,
                 advRef>>
  /\ UNCHANGED nonPomoVars

\* What the command did to session s: the reply is the same either way,
\* the label tells a repeated pause or resume from a first one.
PauseEvent(s, paused) ==
  IF paused THEN (IF s.paused THEN "pause_again" ELSE "pause")
  ELSE (IF s.paused THEN "resume" ELSE "resume_again")

\* Variant of set_pomodoro_pause that subtracts the time since last_ts
\* from remaining before it re-stamps last_ts.
set_pomodoro_pause_Settle(paused) ==
  /\ chanText
  /\ chanSession # 0
  /\ sessions' = [sessions EXCEPT ![chanSession].paused = paused,
                                  ![chanSession].remaining = TickRemaining,
                                  ![chanSession].last_ts = now]
  /\ resumedAt' = IF paused THEN resumedAt
                  ELSE [resumedAt EXCEPT ![chanSession] = now]
  /\ pomoEv' = PauseEvent(sessions[chanSession], paused)
  /\ UNCHANGED <<now, chanText, config, nextSid, chanSession, pomoPc, advRef,
                 startPc, startRef>>
  /\ UNCHANGED nonPomoVars

\* Variant of set_pomodoro_pause that does not re-stamp last_ts.
set_pomodoro_pause_NoStamp(paused) ==
  /\ chanText
  /\ chanSession # 0
  /\ sessions' = [sessions EXCEPT ![chanSession].paused = paused]
  /\ sessions' # sessions
  /\ resumedAt' = IF paused THEN resumedAt
                  ELSE [resumedAt EXCEPT ![chanSession] = now]
  /\ pomoEv' = PauseEvent(sessions[chanSession], paused)
  /\ UNCHANGED <<now, chanText, config, nextSid, chanSession, pomoPc, advRef,
                 startPc, startRef>>
  /\ UNCHANGED nonPomoVars

\* _set_pomodoro_pause(interaction, paused)
set_pomodoro_pause(paused) ==
  /\ chanText
  /\ chanSession # 0
  /\ sessions' = [sessions EXCEPT ![chanSession].paused = paused,
                                  ![chanSession].last_ts = now]
  /\ resumedAt' = IF paused THEN resumedAt
                  ELSE [resumedAt EXCEPT ![chanSession] = now]
  /\ pomoEv' = PauseEvent(sessions[chanSession], paused)
  /\ UNCHANGED <<now, chanText, config, nextSid, chanSession, pomoPc, advRef,
                 startPc, startRef>>
  /\ UNCHANGED nonPomoVars

pausar == set_pomodoro_pause(TRUE)

retomar == set_pomodoro_pause(FALSE)

\* /pomodoro parar
parar ==
  /\ chanText
  /\ chanSession # 0
  /\ chanSession' = 0
  /\ pomoEv' = "stop"
  /\ sessions' = Collect(sessions, {advRef, startRef})
  /\ resumedAt' = CollectTs(resumedAt, {advRef, startRef})
  /\ UNCHANGED <<now, chanText, config, nextSid, pomoPc, advRef, startPc,
                 startRef>>
  /\ UNCHANGED nonPomoVars

\* /pomodoro set: foco, pausa_curta, pausa_longa, ciclos
set_config ==
  /\ chanText
  /\ \E f \in FocusChoices, sb \in ShortChoices, lb \in LongChoices,
        c \in CycleChoices :
        /\ config' = [focus_seconds |-> f, short_break_seconds |-> sb,
                      long_break_seconds |-> lb, cycles_before_long |-> c]
        /\ config' # config
  /\ pomoEv' = "set"
  /\ UNCHANGED <<now, chanText, sessions, nextSid, chanSession, pomoPc,
                 advRef, startPc, startRef, resumedAt>>
  /\ UNCHANGED nonPomoVars

\* add_pomodoro_participant / remove_pomodoro_participant for the one user
\* of the model: `session = channel_data.get("session") or {}` makes a new
\* dict when there is no session.
set_pomodoro_participant(joined) ==
  /\ chanText
  /\ IF chanSession # 0
       THEN /\ sessions' = [sessions EXCEPT ![chanSession].participant = joined]
            /\ sessions' # sessions
            /\ UNCHANGED <<nextSid, chanSession>>
       ELSE /\ nextSid < MaxSessions
            /\ nextSid' = nextSid + 1
            /\ sessions' = [sessions EXCEPT ![nextSid + 1] =
                               [EmptySession EXCEPT !.participant = joined]]
            /\ chanSession' = nextSid + 1
  /\ pomoEv' = IF joined THEN "join" ELSE "leave"
  /\ UNCHANGED <<now, chanText, config, pomoPc, advRef, startPc, startRef,
                 resumedAt>>
  /\ UNCHANGED nonPomoVars

add_pomodoro_participant == set_pomodoro_participant(TRUE)

remove_pomodoro_participant == set_pomodoro_participant(FALSE)

\* The channel is deleted: get_channel returns None from now on.
ChannelDeleted ==
  /\ chanText
  /\ chanText' = FALSE
  /\ pomoEv' = "channel_deleted"
  /\ UNCHANGED <<now, config, sessions, nextSid, chanSession, pomoPc, advRef,
                 startPc, startRef, resumedAt>>
  /\ UNCHANGED nonPomoVars

\* The wall clock advances.
PomoClock ==
  /\ now < MaxTime
  /\ now' = now + 1
  /\ UNCHANGED <<chanText, config, sessions, nextSid, chanSession, pomoPc,
                 advRef, startPc, startRef, resumedAt, pomoEv>>
  /\ UNCHANGED nonPomoVars

PomoNext ==
  \/ PomodoroTick
  \/ AdvanceExtraSent
  \/ AdvancePhaseSent
  \/ AdvanceSendFails
  \/ send_pomodoro_start
  \/ StartSent
  \/ StartFails
  \/ pausar
  \/ retomar
  \/ parar
  \/ set_config
  \/ add_pomodoro_participant
  \/ remove_pomodoro_participant
  \/ ChannelDeleted
  \/ PomoClock

PomoSpec == PomoInit /\ [][PomoNext]_vars

-----------------------------------------------------------------------------
(* Reminders: reminder_loop, /lembrete criar, /lembrete cancelar.
   All reminders of the model belong to one user. *)

\* The first reminder at position >= from that the loop's test selects:
\* not delivered and when_ts <= now_ts.  0 when the loop reaches the end.
NextDue_IgnoreDelivered(from, nowTs) ==
  LET due == {i \in from..Len(reminders) : reminders[i].when_ts <= nowTs}
  IN IF due = {} THEN 0 ELSE CHOOSE i \in due : \A j \in due : i <= j

NextDue(from, nowTs) ==
  LET due == {i \in from..Len(reminders) :
                ~reminders[i].delivered /\ reminders[i].when_ts <= nowTs}
  IN IF due = {} THEN 0 ELSE CHOOSE i \in due : \A j \in due : i <= j

\* The loop moves on from position `from` with the tick's now_ts: it stops
\* at the next due reminder, whose owner is in the user cache (straight to
\* user.send) or not (await fetch_user), or it ends the tick.
RemContinue(from, nowTs) ==
  LET k == NextDue(from, nowTs)
  IN /\ remIdx' = k
     /\ IF k = 0 THEN remPc' = "idle" ELSE remPc' \in {"fetch", "send"}

\* A tick of reminder_loop starts and reaches its first due reminder.
ReminderTick ==
  /\ remPc = "idle"
  /\ NextDue(1, now) # 0
  /\ remNow' = now
  /\ RemContinue(1, now)
  /\ UNCHANGED <<now, reminders, remSent>>
  /\ UNCHANGED nonRemVars

\* fetch_user returns the owner.
ReminderFetched ==
  /\ remPc = "fetch"
  /\ remPc' = "send"
  /\ UNCHANGED <<now, reminders, remIdx, remNow, remSent>>
  /\ UNCHANGED nonRemVars

\* fetch_user raises: user is None and the reminder is left for later.
ReminderFetchFails ==
  /\ remPc = "fetch"
  /\ RemContinue(remIdx + 1, remNow)
  /\ UNCHANGED <<now, reminders, remNow, remSent>>
  /\ UNCHANGED nonRemVars

\* user.send returns: the DM is delivered and the reminder marked.
ReminderSent ==
  /\ remPc = "send"
  /\ remSent' = [remSent EXCEPT ![reminders[remIdx].id] = @ + 1]
  /\ reminders' = [reminders EXCEPT ![remIdx].delivered = TRUE]
  /\ RemContinue(remIdx + 1, remNow)
  /\ UNCHANGED <<now, remNow>>
  /\ UNCHANGED nonRemVars

\* user.send raises: logged, the reminder stays undelivered.
ReminderSendFails ==
  /\ remPc = "send"
  /\ RemContinue(remIdx + 1, remNow)
  /\ UNCHANGED <<now, reminders, remNow, remSent>>
  /\ UNCHANGED nonRemVars

\* /lembrete criar with `quando` parsing to a timestamp of `whens`
criar_at(whens) ==
  /\ Len(reminders) < MaxReminders
  /\ \E w \in whens :
       reminders' = Append(reminders,
          [id |-> Len(reminders) + 1, when_ts |-> w, delivered |-> FALSE])
  /\ UNCHANGED <<now, remPc, remIdx, remNow, remSent>>
  /\ UNCHANGED nonRemVars

\* /lembrete criar: `quando` parses to any timestamp, past or future.
criar == criar_at(0..RemMaxTime)

\* /lembrete criar with quando "+0m": due at once
criar_agora == criar_at({now})

\* /lembrete cancelar id
cancelar ==
  /\ \E i \in 1..Len(reminders) :
       /\ ~reminders[i].delivered
       /\ reminders' = [reminders EXCEPT ![i].delivered = TRUE]
  /\ UNCHANGED <<now, remPc, remIdx, remNow, remSent>>
  /\ UNCHANGED nonRemVars

RemClock ==
  /\ now < RemMaxTime
  /\ now' = now + 1
  /\ UNCHANGED remVars
  /\ UNCHANGED nonRemVars

RemInit == now = 0 /\ OtherInit

RemNext ==
  \/ ReminderTick
  \/ ReminderFetched
  \/ ReminderFetchFails
  \/ ReminderSent
  \/ ReminderSendFails
  \/ criar
  \/ cancelar
  \/ RemClock

ReminderSpec == RemInit /\ [][RemNext]_vars

\* C4: each reminder's DM is delivered at most once, and a reminder whose
\* delivered flag is true keeps it true (and stays in the list).
C4_ReminderAtMostOnce ==
  [][/\ \A i \in 1..MaxReminders : remSent'[i] <= 1
     /\ Len(reminders') >= Len(reminders)
     /\ \A i \in 1..Len(reminders) :
          /\ reminders'[i].id = reminders[i].id
          /\ reminders[i].delivered => reminders'[i].delivered]_vars

\* A reminder was delivered by a tick that found it overdue.
C4_Witness ==
  /\ Len(reminders) >= 1
  /\ remSent[1] = 1
  /\ reminders[1].delivered
  /\ remPc = "idle"
  /\ remNow > reminders[1].when_ts

-----------------------------------------------------------------------------
(* Time windows: parse_hhmm and _is_within_window *)

\* Inputs of the window check
HourTexts == {0, 5, 6, 12, 22, 23, 24}
MinuteTexts == {0, 30, 60}
TimeTexts == (HourTexts \X MinuteTexts) \cup {NoTime}
\* 00:00:00, 05:30:00, 06:00:00, 06:00:59, 06:01:00, 12:00:00, 21:59:59,
\* 22:00:00, 23:30:00 UTC of day 0
TsChoices == {0, 19800, 21600, 21659, 21660, 43200, 79199, 79200, 84600}
TzOffsets == {-10800, 0, 3600}

\* parse_hhmm: the pair (hour, minute) when both are in range, else None
parse_hhmm(text) ==
  IF 0 <= text[1] /\ text[1] < 24 /\ 0 <= text[2] /\ text[2] < 60
    THEN text
    ELSE NoTime

\* dt = datetime.fromtimestamp(ts, utc).astimezone(tz);
\* dt.hour * 60 + dt.minute
MinutesNow(ts, tz) == ((ts + tz) \div 60) % 1440

\* Variant of _is_within_window with exclusive window ends.
is_within_window_Exclusive(ts, start, end, tz) ==
  IF parse_hhmm(start) = NoTime \/ parse_hhmm(end) = NoTime THEN TRUE
  ELSE LET minutes_now == MinutesNow(ts, tz)
           start_min == parse_hhmm(start)[1] * 60 + parse_hhmm(start)[2]
           end_min == parse_hhmm(end)[1] * 60 + parse_hhmm(end)[2]
       IN IF start_min <= end_min
            THEN start_min < minutes_now /\ minutes_now < end_min
            ELSE minutes_now > start_min \/ minutes_now < end_min

\* _is_within_window(ts, start, end, tz)
is_within_window(ts, start, end, tz) ==
  IF parse_hhmm(start) = NoTime \/ parse_hhmm(end) = NoTime THEN TRUE
  ELSE LET minutes_now == MinutesNow(ts, tz)
           start_min == parse_hhmm(start)[1] * 60 + parse_hhmm(start)[2]
           end_min == parse_hhmm(end)[1] * 60 + parse_hhmm(end)[2]
       IN IF start_min <= end_min
            THEN start_min <= minutes_now /\ minutes_now <= end_min
            ELSE minutes_now >= start_min \/ minutes_now <= end_min

WinInit ==
  /\ now = 0 /\ PomoStateInit /\ RemStateInit /\ DmStateInit /\ HabStateInit
  /\ RotStateInit /\ AuxStateInit
  /\ winStart \in TimeTexts
  /\ winEnd \in TimeTexts
  /\ winTs \in TsChoices
  /\ winTz \in TzOffsets
  /\ winDone = FALSE
  /\ winResult = FALSE

\* The nudge engine calls _is_within_window on its inputs.
WindowCheck ==
  /\ ~winDone
  /\ winDone' = TRUE
  /\ winResult' = is_within_window(winTs, winStart, winEnd, winTz)
  /\ UNCHANGED <<winStart, winEnd, winTs, winTz>>
  /\ UNCHANGED nonWinVars

WinNext == WindowCheck

WindowSpec == WinInit /\ [][WinNext]_vars

\* Minutes of the local day of a valid "HH:MM" text
WinMinutes(text) == text[1] * 60 + text[2]

WinValid(text) == text # NoTime /\ text[1] < 24 /\ text[2] < 60

\* C7: for valid start and end, the check answers true exactly when the
\* local minute t satisfies start <= t <= end (start <= end), or t >= start
\* or t <= end (start > end, the window wraps midnight); 22:00-06:00
\* contains 23:30 and 05:30 and excludes 12:00.
C7_WindowContainment ==
  (winDone /\ WinValid(winStart) /\ WinValid(winEnd)) =>
     LET t == MinutesNow(winTs, winTz)
         a == WinMinutes(winStart)
         b == WinMinutes(winEnd)
     IN /\ winResult = IF a <= b THEN (a <= t /\ t <= b) ELSE (t >= a \/ t <= b)
        /\ (a = 1320 /\ b = 360 /\ t \in {1410, 330}) => winResult = TRUE
        /\ (a = 1320 /\ b = 360 /\ t = 720) => winResult = FALSE

\* The window 22:00-06:00 was checked at 06:00 local time, its last minute.
C7_Witness ==
  /\ winStart = <<22, 0>>
  /\ winEnd = <<6, 0>>
  /\ MinutesNow(winTs, winTz) = 360
  /\ winDone
  /\ winResult = TRUE

-----------------------------------------------------------------------------
(* DM-blocked backoff: _dm_blocked_until, _mark_dm_success,
   _handle_dm_blocked *)

\* today_key(tz): the local day of the clock
DayKey(t) == t \div DayLen

\* _dm_blocked_until(user_id)
dm_blocked_until == IF dmBlocked THEN dmNextCheck ELSE 0

\* Variant of mark_dm_success that leaves the entry as it is.
mark_dm_success_Keep == UNCHANGED <<dmBlocked, dmNextCheck, dmNotified>>

\* _mark_dm_success(user_id), up to its await of the save
mark_dm_success ==
  IF dmBlocked
    THEN dmBlocked' = FALSE /\ dmNextCheck' = 0 /\ dmNotified' = NoNotified
    ELSE UNCHANGED <<dmBlocked, dmNextCheck, dmNotified>>

\* The count _handle_dm_blocked computes for the channel today
BlkCount == IF dmNotified.date = DayKey(now) THEN dmNotified.count ELSE 0

\* _handle_dm_blocked decides to post the public notice; hasChannel says
\* that its `channel` argument is a text channel.
BlkWantsNotice(hasChannel) ==
  hasChannel /\ BlkCount < 2 /\ now - dmNotified.ts >= DmRetry

\* _handle_dm_blocked up to its first await: the user becomes blocked.
BlkHead ==
  /\ dmBlocked' = TRUE
  /\ dmNextCheck' = now + DmRetry

\* The locals _handle_dm_blocked keeps across its await channel.send
BlkLocals == [now |-> now, count |-> BlkCount, date |-> DayKey(now)]

\* channel.send of the notice returned: notified[channel] is recorded from
\* the locals of the call.
BlkNoticeRecorded(blk) ==
  /\ dmNotified' = [ts |-> blk.now, count |-> blk.count + 1, date |-> blk.date]
  /\ notices' = Append(notices, blk.now)

-----------------------------------------------------------------------------
(* Habits: habito_loop, /habito criar, pausar, retomar, marcar *)

\* /habito criar
habito_criar ==
  /\ ~habit.exists
  /\ \E g \in GoalChoices, iv \in IntervalChoices :
       habit' = [exists |-> TRUE, active |-> TRUE, goal |-> g,
                 interval |-> iv, next_ts |-> now,
                 progress |-> [d \in 0..MaxDay |-> 0],
                 last_message |-> FALSE]
  /\ UNCHANGED <<now, habPc, habNow, habBlk>>
  /\ UNCHANGED <<dmVars, nonHabVars>>

\* /habito pausar and /habito retomar: _toggle_habit
toggle_habit ==
  /\ habit.exists
  /\ habit' = [habit EXCEPT !.active = ~@]
  /\ UNCHANGED <<now, habPc, habNow, habBlk>>
  /\ UNCHANGED <<dmVars, nonHabVars>>

\* /habito marcar with quantidade 1
marcar ==
  /\ habit.exists
  /\ habit.progress[DayKey(now)] < MaxProgress
  /\ habit' = [habit EXCEPT !.progress[DayKey(now)] = @ + 1]
  /\ UNCHANGED <<now, habPc, habNow, habBlk>>
  /\ UNCHANGED <<dmVars, nonHabVars>>

\* Variant of HabitDue that takes every habit as due.
HabitDue_Always(h, t) == TRUE

\* `if next_ts and next_ts > now_ts: continue` (lines 571-572): the habit
\* is due when it has no next_ts or its next_ts is not after now_ts.
HabitDue(h, t) == ~(h.next_ts # 0 /\ h.next_ts > t)

\* Variant of HabitBelowGoal that takes every habit as below its goal.
HabitBelowGoal_Always(h, d) == TRUE

\* `if done_today >= goal: continue` (lines 563-570), goal being
\* max(1, goal_per_day): the habit still wants a nudge on local day d.
HabitBelowGoal(h, d) == h.progress[d] < Max(1, h.goal)

\* The loop from the resolved user to user.send or to `continue`: the
\* DM-blocked test of lines 585-590, t being the tick's now_ts.
HabitAfterUser(t) ==
  IF dm_blocked_until # 0 /\ dm_blocked_until > t
    THEN /\ habit' = IF habit.next_ts < dm_blocked_until
                       THEN [habit EXCEPT !.next_ts = dm_blocked_until]
                       ELSE habit
         /\ habPc' = "idle"
    ELSE /\ habPc' = "send"
         /\ UNCHANGED habit

\* The loop from a confirmed member to its next await or `continue`:
\* get_user answers from the cache, or fetch_user_safe is awaited.
HabitAfterMember(t) ==
  \E cached \in BOOLEAN :
    IF cached THEN HabitAfterUser(t)
              ELSE habPc' = "user" /\ UNCHANGED habit

\* _handle_habit_reaction on the owner's reaction, with the habit's emoji,
\* to the last nudge of the habit, up to its first await: one more unit of
\* progress today and, when the goal is reached, an hour of rest.
handle_habit_reaction ==
  /\ habit.exists /\ habit.last_message
  /\ habit.progress[DayKey(now)] < MaxProgress
  /\ LET done == habit.progress[DayKey(now)] + 1 IN
       habit' = [habit EXCEPT
         !.progress[DayKey(now)] = done,
         !.next_ts = IF done >= habit.goal THEN now + HourLen ELSE @]
  /\ UNCHANGED <<now, habPc, habNow, habBlk>>
  /\ UNCHANGED <<dmVars, nonHabVars>>

\* The loop finds the habit due; the membership is answered from the cache
\* (or the habit has no guild), or the lookup is awaited.
HabitTick ==
  /\ habPc = "idle"
  /\ habit.exists /\ habit.active
  /\ HabitBelowGoal(habit, DayKey(now))
  /\ HabitDue(habit, now)
  /\ habNow' = now
  /\ \E cached \in BOOLEAN :
       IF cached THEN HabitAfterMember(now)
                 ELSE habPc' = "member" /\ UNCHANGED habit
  /\ UNCHANGED <<now, habBlk>>
  /\ UNCHANGED <<dmVars, nonHabVars>>

\* The awaited _ensure_member returns the member.
HabitMemberFound ==
  /\ habPc = "member"
  /\ HabitAfterMember(habNow)
  /\ UNCHANGED <<now, habNow, habBlk>>
  /\ UNCHANGED <<dmVars, nonHabVars>>

\* _ensure_member returns None: the habit is deferred by a day.
HabitMemberAbsent ==
  /\ habPc = "member"
  /\ habit' = [habit EXCEPT !.next_ts = habNow + DayLen]
  /\ habPc' = "idle"
  /\ UNCHANGED <<now, habNow, habBlk>>
  /\ UNCHANGED <<dmVars, nonHabVars>>

\* The user is resolved; the loop tests the DM-blocked state and either
\* backs off or calls user.send.
HabitUserFound ==
  /\ habPc = "user"
  /\ HabitAfterUser(habNow)
  /\ UNCHANGED <<now, habNow, habBlk>>
  /\ UNCHANGED <<dmVars, nonHabVars>>

\* fetch_user_safe returns None.
HabitUserAbsent ==
  /\ habPc = "user"
  /\ habPc' = "idle"
  /\ UNCHANGED <<now, habit, habNow, habBlk>>
  /\ UNCHANGED <<dmVars, nonHabVars>>

\* user.send returned the message; add_reaction is awaited next.
HabitSent ==
  /\ habPc = "send"
  /\ habPc' = "react"
  /\ UNCHANGED <<now, habit, habNow, habBlk>>
  /\ UNCHANGED <<dmVars, nonHabVars>>

\* add_reaction returned or raised: the habit is rescheduled and the
\* delivery reported to _mark_dm_success.
HabitReacted ==
  /\ habPc = "react"
  /\ habit' = [habit EXCEPT !.next_ts = habNow + Max(1, habit.interval),
                            !.last_message = TRUE]
  /\ mark_dm_success
  /\ habPc' = "idle"
  /\ UNCHANGED <<now, notices, habNow, habBlk>>
  /\ UNCHANGED nonHabVars

\* user.send raised discord.Forbidden: _handle_dm_blocked runs to its
\* await of the public notice, or to its end when no notice is posted.
HabitSendForbidden ==
  /\ habPc = "send"
  /\ BlkHead
  /\ \E hasChannel \in BOOLEAN :
       IF BlkWantsNotice(hasChannel) /\ Len(notices) < MaxNotices
         THEN /\ habBlk' = BlkLocals
              /\ habPc' = "notice"
              /\ UNCHANGED habit
         ELSE /\ habit' = [habit EXCEPT !.next_ts = habNow + DmRetry]
              /\ habPc' = "idle"
              /\ UNCHANGED habBlk
  /\ UNCHANGED <<now, dmNotified, notices, habNow>>
  /\ UNCHANGED nonHabVars

\* The notice was posted and is recorded; the habit retries in 5 minutes.
HabitNoticeSent ==
  /\ habPc = "notice"
  /\ BlkNoticeRecorded(habBlk)
  /\ habit' = [habit EXCEPT !.next_ts = habNow + DmRetry]
  /\ habPc' = "idle"
  /\ UNCHANGED <<now, dmBlocked, dmNextCheck, habNow, habBlk>>
  /\ UNCHANGED nonHabVars

\* Posting the notice raised: logged; the habit retries in 5 minutes.
HabitNoticeFails ==
  /\ habPc = "notice"
  /\ habit' = [habit EXCEPT !.next_ts = habNow + DmRetry]
  /\ habPc' = "idle"
  /\ UNCHANGED <<now, habNow, habBlk>>
  /\ UNCHANGED <<dmVars, nonHabVars>>

\* user.send raised another exception: logged.
HabitSendFails ==
  /\ habPc = "send"
  /\ habPc' = "idle"
  /\ UNCHANGED <<now, habit, habNow, habBlk>>
  /\ UNCHANGED <<dmVars, nonHabVars>>

DmClock ==
  /\ now < DmMaxTime
  /\ now' = now + 1
  /\ UNCHANGED <<pomoVars, remVars, winVars, dmVars, habVars, rotVars, auxVars>>

DmInit == now = DmEpoch /\ OtherInit

\* The habit engine with the commands on the habit
HabitNext ==
  \/ habito_criar
  \/ toggle_habit
  \/ marcar
  \/ handle_habit_reaction
  \/ HabitTick
  \/ HabitMemberFound
  \/ HabitMemberAbsent
  \/ HabitUserFound
  \/ HabitUserAbsent
  \/ HabitSent
  \/ HabitReacted
  \/ HabitSendForbidden
  \/ HabitNoticeSent
  \/ HabitNoticeFails
  \/ HabitSendFails
  \/ DmClock

HabitSpec == DmInit /\ [][HabitNext]_vars

\* The habit engine and the reminder engine share the user's DM status.
DmNext ==
  \/ habito_criar
  \/ HabitTick
  \/ HabitMemberFound
  \/ HabitMemberAbsent
  \/ HabitUserFound
  \/ HabitUserAbsent
  \/ HabitSent
  \/ HabitReacted
  \/ HabitSendForbidden
  \/ HabitNoticeSent
  \/ HabitNoticeFails
  \/ HabitSendFails
  \/ ReminderTick
  \/ ReminderFetched
  \/ ReminderFetchFails
  \/ ReminderSent
  \/ ReminderSendFails
  \/ criar_agora
  \/ cancelar
  \/ RemClock

DmSpec == DmInit /\ [][DmNext]_vars

-----------------------------------------------------------------------------
(* DM-blocked backoff: properties *)

\* An engine calls user.send in this step.
DmAttempted ==
  \/ remPc # "send" /\ remPc' = "send"
  \/ habPc # "send" /\ habPc' = "send"

\* C8: no engine attempts a direct message to the user while the user's
\* DM status is blocked and now < retry_after.
C8_NoDmWhileBlocked ==
  [][DmAttempted => ~(dmBlocked /\ now < dmNextCheck)]_vars

\* An engine finished handling a delivered direct message in this step:
\* the reminder loop marked a reminder delivered, or the habit loop
\* rescheduled the habit after its send.
DmDelivered ==
  \/ remSent' # remSent
  \/ habPc = "react" /\ habPc' = "idle"

\* C9: after a successful direct-message delivery by any engine the
\* user's DM-blocked flag is false.
C9_SuccessClearsBlocked ==
  [][DmDelivered => ~dmBlocked']_vars

\* The public notices posted on local day d, as positions of `notices`
NoticesOn(d) == {i \in 1..Len(notices) : DayKey(notices[i]) = d}

\* C10: at most 2 public notices are posted per calendar day for the user
\* and channel, and consecutive notices are at least 300 seconds apart,
\* across refusals and successful deliveries.
C10_NoticeRateLimit ==
  /\ \A d \in 0..MaxDay : Cardinality(NoticesOn(d)) <= 2
  /\ \A i \in 1..(Len(notices) - 1) : notices[i + 1] - notices[i] >= DmRetry

-----------------------------------------------------------------------------
(* Habits: properties *)

\* habito_loop calls user.send in this step.
HabitSendIssued == habPc # "send" /\ habPc' = "send"

\* The habit is active, below its goal on the local day and due.
HabitWantsNudge ==
  /\ habit.exists /\ habit.active
  /\ habit.progress[DayKey(now)] < habit.goal
  /\ (habit.next_ts = 0 \/ habit.next_ts <= now)

\* C31 as stated: at every send of a habit nudge the habit is active, its
\* progress of the local day is below the goal and its next_ts has
\* elapsed, whatever ran while the tick was suspended.
C31_Original == [][HabitSendIssued => HabitWantsNudge]_vars

\* C31, amended: the tick that sends a habit nudge found the habit active,
\* below its goal on the local day and due when it began, and the same
\* holds at the send when the tick awaited no lookup.
C31_NudgeConditionsAtTick ==
  /\ [][(habPc = "idle" /\ habPc' # "idle") => HabitWantsNudge]_vars
  /\ [][(HabitSendIssued /\ habPc = "idle") => HabitWantsNudge]_vars
  /\ [](habPc \in {"member", "user", "send"} => habit.exists /\ habNow <= now)

\* The nudge is on its way although a handler that ran during the lookups
\* raised today's progress to the goal.
C31_Witness ==
  /\ habPc = "send"
  /\ habit.active
  /\ habit.progress[DayKey(habNow)] >= habit.goal
  /\ DayKey(habNow) = DayKey(now)

\* The user is DM-blocked with a next_check after the tick's now_ts: a
\* tick that finds member and user in the cache ends on that test.
HabitInBackoff == dmBlocked /\ dmNextCheck > habNow

\* C30: when the membership lookup of an active, due habit returns no
\* member, the loop goes on without calling user.send and sets the habit's
\* next_ts one day after the tick's now_ts; and a membership lookup is
\* started for a habit only when its next_ts has elapsed, so none is made
\* before the deferred next_ts is reached.
C30_AbsentMemberDeferred ==
  /\ [][(habPc = "member" /\ habPc' = "idle" /\ ~HabitInBackoff) =>
          habit'.next_ts = habNow + DayLen]_vars
  /\ [][(habPc # "member" /\ habPc' = "member") =>
          (habit.next_ts = 0 \/ habit.next_ts <= now)]_vars

\* The lookup of the tick at habNow found no member: the habit is due a
\* day later, the clock has moved on and the loop has started no other
\* lookup nor sent anything.
C30_Witness ==
  /\ habit.exists /\ habit.active
  /\ habit.progress[DayKey(now)] < habit.goal
  /\ habPc = "idle"
  /\ habit.next_ts = habNow + DayLen
  /\ now >= habNow + 2
  /\ ~dmBlocked /\ notices = <<>>

-----------------------------------------------------------------------------
(* Routines: rotina_anuncio_loop, rotina_dm_loop, confirmar_rotina,
   rotina_skip_today, /rotinaadmin criar and editar, /rotina entrar *)

\* The local minute of day of a clock value
LocalSlot(t) == t % DayLen

\* end_of_day_ts(tz): the start of the next local day
end_of_day_ts == (DayKey(now) + 1) * DayLen

\* /rotinaadmin criar
admin_criar ==
  /\ ~rotina.exists
  /\ \E times \in TimesChoices :
       rotina' = [exists |-> TRUE, active |-> TRUE, times |-> times]
  /\ UNCHANGED <<now, announcements, annPublished, confirmations, prefs,
                 annPc, annIdx, annTimes, annNow, nudPc, nudNow, nudBlk,
                 annDeduped, dmViewSent>>
  /\ UNCHANGED <<dmVars, nonRotVars>>

\* /rotinaadmin editar with horarios
admin_editar ==
  /\ rotina.exists
  /\ \E times \in TimesChoices : rotina' = [rotina EXCEPT !.times = times]
  /\ UNCHANGED <<now, announcements, annPublished, confirmations, prefs,
                 annPc, annIdx, annTimes, annNow, nudPc, nudNow, nudBlk,
                 annDeduped, dmViewSent>>
  /\ UNCHANGED <<dmVars, nonRotVars>>

\* /rotina entrar
entrar ==
  /\ rotina.exists
  /\ \E dm \in BOOLEAN, iv \in IntervalChoices :
       prefs' = [prefs EXCEPT !.enrolled = TRUE, !.dm = dm,
                              !.interval = Max(1, iv), !.next_ts = now]
  /\ UNCHANGED <<now, rotina, announcements, annPublished, confirmations,
                 annPc, annIdx, annTimes, annNow, nudPc, nudNow, nudBlk,
                 annDeduped, dmViewSent>>
  /\ UNCHANGED <<dmVars, nonRotVars>>

\* confirmar_rotina called by the "Fiz!" button of the announcement of
\* local day d, up to its first await.
confirmar_rotina ==
  /\ rotina.exists
  /\ \E d \in 0..MaxDay :
       /\ \E sl \in Slots : annPublished[d][sl] > 0
       /\ confirmations' = [confirmations EXCEPT ![d] = TRUE]
  /\ prefs' = IF prefs.enrolled
                THEN [prefs EXCEPT !.next_ts = now + Max(1, prefs.interval)]
                ELSE prefs
  /\ UNCHANGED <<now, rotina, announcements, annPublished,
                 annPc, annIdx, annTimes, annNow, nudPc, nudNow, nudBlk,
                 annDeduped, dmViewSent>>
  /\ UNCHANGED <<dmVars, nonRotVars>>

\* rotina_skip_today called by the button of a delivered nudge
rotina_skip_today ==
  /\ rotina.exists /\ dmViewSent
  /\ prefs.enrolled
  /\ prefs' = [prefs EXCEPT !.snooze_until = end_of_day_ts,
                            !.next_ts = end_of_day_ts]
  /\ UNCHANGED <<now, rotina, announcements, annPublished, confirmations,
                 annPc, annIdx, annTimes, annNow, nudPc, nudNow, nudBlk,
                 annDeduped, dmViewSent>>
  /\ UNCHANGED <<dmVars, nonRotVars>>

\* Variant of AnnDue that leaves out the `entry in daily` test.
AnnDue_NoDedupe(from, times, nowTs, daily) ==
  {i \in from..Len(times) : times[i] = LocalSlot(nowTs)}

\* The entries of `times`, from position `from` on, that the loop of
\* rotina_anuncio_loop announces: the local minute matches and the entry
\* is not a key of `daily`.
AnnDue(from, times, nowTs, daily) ==
  {i \in from..Len(times) : times[i] = LocalSlot(nowTs) /\ times[i] \notin daily}

\* The entries at positions from..to that the loop meets at their minute
\* and skips as already recorded
AnnSkipped(from, to, times, nowTs, daily) ==
  {i \in from..to : times[i] = LocalSlot(nowTs) /\ times[i] \in daily}

\* The for loop over `times` runs from position `from` to its next
\* await channel.send, or to its end; `seen` says that this pass already
\* skipped a recorded entry.
AnnContinue(from, times, nowTs, daily, seen) ==
  LET due == AnnDue(from, times, nowTs, daily) IN
  IF due = {}
    THEN /\ annPc' = "idle"
         /\ annIdx' = 0
         /\ annTimes' = <<>>
         /\ annDeduped' =
              (seen \/ AnnSkipped(from, Len(times), times, nowTs, daily) # {})
    ELSE LET i == CHOOSE k \in due : \A m \in due : k <= m IN
         /\ annPc' = "send"
         /\ annIdx' = i
         /\ annTimes' = times
         /\ annDeduped' =
              (seen \/ AnnSkipped(from, i - 1, times, nowTs, daily) # {})

\* Variant of TodayMap that starts the day's map afresh.
TodayMap_Fresh(conf, d) == [conf EXCEPT ![d] = FALSE]

\* rotina.setdefault("confirmations", {}).setdefault(today, {}): the map
\* of the day is created when missing and kept when there is one.
TodayMap(conf, d) == conf

\* Variant of AnnResetDue that resets every enrolled user who is not
\* snoozed.
AnnResetDue_AllUnsnoozed(p, confirmed, nowTs) ==
  IF p.enrolled /\ ~(p.snooze_until # 0 /\ p.snooze_until > nowTs)
    THEN [p EXCEPT !.next_ts = nowTs]
    ELSE p

\* The loop over the enrollments after a publication (lines 668-679):
\* the user is passed over when DMs are off, when the day is confirmed or
\* when a snooze ends after now_ts; otherwise next_ts = now_ts.
AnnResetDue(p, confirmed, nowTs) ==
  IF /\ p.enrolled /\ p.dm
     /\ ~confirmed
     /\ ~(p.snooze_until # 0 /\ p.snooze_until > nowTs)
    THEN [p EXCEPT !.next_ts = nowTs]
    ELSE p

\* One pass of rotina_anuncio_loop starts on the active routine.
AnnTick ==
  /\ annPc = "idle"
  /\ rotina.exists /\ rotina.active
  /\ annNow' = now
  /\ AnnContinue(1, rotina.times, now, announcements[DayKey(now)], FALSE)
  /\ UNCHANGED <<now, rotina, announcements, annPublished, confirmations,
                 prefs, nudPc, nudNow, nudBlk, dmViewSent>>
  /\ UNCHANGED <<dmVars, nonRotVars>>

\* channel.send returned the announcement message; add_reaction is next.
AnnSent ==
  /\ annPc = "send"
  /\ annPublished' =
       [annPublished EXCEPT ![DayKey(annNow)][annTimes[annIdx]] = @ + 1]
  /\ annPc' = "react"
  /\ UNCHANGED <<now, rotina, announcements, confirmations, prefs,
                 annIdx, annTimes, annNow, nudPc, nudNow, nudBlk,
                 annDeduped, dmViewSent>>
  /\ UNCHANGED <<dmVars, nonRotVars>>

\* add_reaction returned or raised: daily[entry] is written, next_ts of
\* the enrolled user is reset, and the loop goes on after the save.
AnnReacted ==
  /\ annPc = "react"
  /\ LET today == DayKey(annNow)
         daily == announcements[today] \cup {annTimes[annIdx]} IN
       /\ announcements' = [announcements EXCEPT ![today] = daily]
       /\ prefs' = AnnResetDue(prefs, confirmations[today], now)
       /\ confirmations' = TodayMap(confirmations, today)
       /\ AnnContinue(annIdx + 1, annTimes, annNow, daily, annDeduped)
  /\ UNCHANGED <<now, rotina, annPublished,
                 annNow, nudPc, nudNow, nudBlk, dmViewSent>>
  /\ UNCHANGED <<dmVars, nonRotVars>>

\* channel.send raised: logged, and the loop goes on with the next entry.
AnnSendFails ==
  /\ annPc = "send"
  /\ AnnContinue(annIdx + 1, annTimes, annNow,
                 announcements[DayKey(annNow)], annDeduped)
  /\ UNCHANGED <<now, rotina, announcements, annPublished, confirmations,
                 prefs, annNow, nudPc, nudNow, nudBlk, dmViewSent>>
  /\ UNCHANGED <<dmVars, nonRotVars>>

\* The tests rotina_dm_loop makes on the enrolled user before it awaits
\* the membership lookup: DMs wanted, no confirmation today, no snooze
\* ending in the future.
NudgeChecksA ==
  /\ prefs.dm
  /\ ~confirmations[DayKey(now)]
  /\ ~(prefs.snooze_until # 0 /\ prefs.snooze_until > now)

\* Where the tick goes after the quiet-window test: `within` is the verdict
\* of _is_within_window, `cached` says that get_user answers.
NudgeAfterWindow(within, cached) ==
  IF ~within THEN "idle" ELSE IF cached THEN "send" ELSE "user"

\* Variant of NudgeAfterMember that leaves out the DM-blocked test.
NudgeAfterMember_NoBackoff(p, t) ==
  IF p.next_ts # 0 /\ p.next_ts > t
    THEN prefs' = p /\ nudPc' = "idle" /\ nudNow' = 0
    ELSE \E within \in BOOLEAN, cached \in BOOLEAN :
           /\ prefs' = p
           /\ nudPc' = NudgeAfterWindow(within, cached)
           /\ nudNow' = IF within THEN t ELSE 0

\* rotina_dm_loop from the return of _ensure_member with a member to its
\* next await or `continue`; p is the user's prefs and t the tick's
\* now_ts. The tests are on next_ts, on _dm_blocked_until and on the
\* quiet window.
NudgeAfterMember(p, t) ==
  IF p.next_ts # 0 /\ p.next_ts > t
    THEN prefs' = p /\ nudPc' = "idle" /\ nudNow' = 0
    ELSE IF dm_blocked_until # 0 /\ dm_blocked_until > t
      THEN /\ prefs' = IF p.next_ts < dm_blocked_until
                         THEN [p EXCEPT !.next_ts = dm_blocked_until]
                         ELSE p
           /\ nudPc' = "idle"
           /\ nudNow' = 0
      ELSE \E within \in BOOLEAN, cached \in BOOLEAN :
             /\ prefs' = p
             /\ nudPc' = NudgeAfterWindow(within, cached)
             /\ nudNow' = IF within THEN t ELSE 0

\* One pass of rotina_dm_loop reaches the enrolled user: the routine is
\* active and has an announcement recorded today; the first tests pass, an
\* elapsed snooze is dropped, and _ensure_member answers from the cache or
\* is awaited.
NudgeTick ==
  /\ nudPc = "idle"
  /\ rotina.exists /\ rotina.active
  /\ announcements[DayKey(now)] # {}
  /\ prefs.enrolled
  /\ NudgeChecksA
  /\ \E cached \in BOOLEAN :
       IF cached
         THEN NudgeAfterMember([prefs EXCEPT !.snooze_until = 0], now)
         ELSE /\ prefs' = [prefs EXCEPT !.snooze_until = 0]
              /\ nudPc' = "member"
              /\ nudNow' = now
  /\ confirmations' = TodayMap(confirmations, DayKey(now))
  /\ UNCHANGED <<now, rotina, announcements, annPublished,
                 annPc, annIdx, annTimes, annNow, nudBlk, annDeduped,
                 dmViewSent>>
  /\ UNCHANGED <<dmVars, nonRotVars>>

\* The awaited membership lookup returns the member.
NudgeMemberFound ==
  /\ nudPc = "member"
  /\ NudgeAfterMember(prefs, nudNow)
  /\ UNCHANGED <<now, rotina, announcements, annPublished, confirmations,
                 annPc, annIdx, annTimes, annNow, nudBlk, annDeduped,
                 dmViewSent>>
  /\ UNCHANGED <<dmVars, nonRotVars>>

\* The awaited membership lookup returns None: deferred by a day.
NudgeMemberAbsent ==
  /\ nudPc = "member"
  /\ prefs' = [prefs EXCEPT !.next_ts = nudNow + DayLen]
  /\ nudPc' = "idle"
  /\ nudNow' = 0
  /\ UNCHANGED <<now, rotina, announcements, annPublished, confirmations,
                 annPc, annIdx, annTimes, annNow, nudBlk,
                 annDeduped, dmViewSent>>
  /\ UNCHANGED <<dmVars, nonRotVars>>

\* The awaited fetch_user_safe returns the user: user.send is called.
NudgeUserFound ==
  /\ nudPc = "user"
  /\ nudPc' = "send"
  /\ UNCHANGED <<now, rotina, announcements, annPublished, confirmations,
                 prefs, annPc, annIdx, annTimes, annNow, nudNow, nudBlk,
                 annDeduped, dmViewSent>>
  /\ UNCHANGED <<dmVars, nonRotVars>>

\* fetch_user_safe returns None.
NudgeUserAbsent ==
  /\ nudPc = "user"
  /\ nudPc' = "idle"
  /\ nudNow' = 0
  /\ UNCHANGED <<now, rotina, announcements, annPublished, confirmations,
                 prefs, annPc, annIdx, annTimes, annNow, nudBlk,
                 annDeduped, dmViewSent>>
  /\ UNCHANGED <<dmVars, nonRotVars>>

\* user.send returned: the nudge is delivered, the user rescheduled and
\* the delivery reported to _mark_dm_success.
NudgeSent ==
  /\ nudPc = "send"
  /\ prefs' = [prefs EXCEPT !.next_ts = nudNow + Max(1, prefs.interval)]
  /\ mark_dm_success
  /\ dmViewSent' = TRUE
  /\ nudPc' = "idle"
  /\ nudNow' = 0
  /\ UNCHANGED <<now, notices, rotina, announcements, annPublished,
                 confirmations, annPc, annIdx, annTimes, annNow,
                 nudBlk, annDeduped>>
  /\ UNCHANGED nonRotVars

\* user.send raised discord.Forbidden: _handle_dm_blocked runs to its
\* await of the public notice, or to its end when no notice is posted.
NudgeSendForbidden ==
  /\ nudPc = "send"
  /\ BlkHead
  /\ IF BlkWantsNotice(TRUE) /\ Len(notices) < MaxNotices
       THEN /\ nudBlk' = BlkLocals
            /\ nudPc' = "notice"
            /\ UNCHANGED <<prefs, nudNow>>
       ELSE /\ prefs' = [prefs EXCEPT !.next_ts = nudNow + DmRetry]
            /\ nudPc' = "idle"
            /\ nudNow' = 0
            /\ UNCHANGED nudBlk
  /\ UNCHANGED <<now, dmNotified, notices, rotina, announcements,
                 annPublished, confirmations, annPc, annIdx, annTimes,
                 annNow, annDeduped, dmViewSent>>
  /\ UNCHANGED nonRotVars

\* The notice was posted and is recorded; the user retries in 5 minutes.
NudgeNoticeSent ==
  /\ nudPc = "notice"
  /\ BlkNoticeRecorded(nudBlk)
  /\ prefs' = [prefs EXCEPT !.next_ts = nudNow + DmRetry]
  /\ nudPc' = "idle"
  /\ nudNow' = 0
  /\ nudBlk' = NoBlk
  /\ UNCHANGED <<now, dmBlocked, dmNextCheck, rotina, announcements,
                 annPublished, confirmations, annPc, annIdx, annTimes,
                 annNow, annDeduped, dmViewSent>>
  /\ UNCHANGED nonRotVars

\* Posting the notice raised: logged; the user retries in 5 minutes.
NudgeNoticeFails ==
  /\ nudPc = "notice"
  /\ prefs' = [prefs EXCEPT !.next_ts = nudNow + DmRetry]
  /\ nudPc' = "idle"
  /\ nudNow' = 0
  /\ nudBlk' = NoBlk
  /\ UNCHANGED <<now, rotina, announcements, annPublished, confirmations,
                 annPc, annIdx, annTimes, annNow,
                 annDeduped, dmViewSent>>
  /\ UNCHANGED <<dmVars, nonRotVars>>

\* user.send raised another exception: logged.
NudgeSendFails ==
  /\ nudPc = "send"
  /\ nudPc' = "idle"
  /\ nudNow' = 0
  /\ UNCHANGED <<now, rotina, announcements, annPublished, confirmations,
                 prefs, annPc, annIdx, annTimes, annNow, nudBlk,
                 annDeduped, dmViewSent>>
  /\ UNCHANGED <<dmVars, nonRotVars>>

RotClock ==
  /\ now < RotMaxTime
  /\ now' = now + 1
  /\ UNCHANGED <<pomoVars, remVars, winVars, dmVars, habVars, rotVars, auxVars>>

RotNext ==
  \/ admin_criar
  \/ admin_editar
  \/ entrar
  \/ confirmar_rotina
  \/ rotina_skip_today
  \/ AnnTick
  \/ AnnSent
  \/ AnnReacted
  \/ AnnSendFails
  \/ NudgeTick
  \/ NudgeMemberFound
  \/ NudgeMemberAbsent
  \/ NudgeUserFound
  \/ NudgeUserAbsent
  \/ NudgeSent
  \/ NudgeSendForbidden
  \/ NudgeNoticeSent
  \/ NudgeNoticeFails
  \/ NudgeSendFails
  \/ RotClock

RotinaSpec == DmInit /\ [][RotNext]_vars

-----------------------------------------------------------------------------
(* Routines: properties *)

\* C5: for every local day and slot at most one announcement message is
\* published, and announcements[day][slot] is written only while the slot
\* is not yet a key of that day, however many ticks see the minute.
C5_AnnouncedAtMostOnce ==
  /\ [](\A d \in 0..MaxDay : \A sl \in Slots : annPublished[d][sl] <= 1)
  /\ [][(annPc = "react" /\ annPc' # "react")
          => annTimes[annIdx] \notin announcements[DayKey(annNow)]]_vars

\* A later tick of the same minute met the recorded slot and skipped it.
C5_Witness ==
  /\ annDeduped
  /\ annPc = "idle"
  /\ LocalSlot(annNow) = 2
  /\ 2 \in announcements[DayKey(annNow)]
  /\ annPublished[DayKey(annNow)][2] = 1

\* rotina_dm_loop calls user.send in this step.
NudgeSendIssued == nudPc # "send" /\ nudPc' = "send"

NotConfirmedToday == ~confirmations[DayKey(now)]

NotSnoozed == ~(prefs.snooze_until # 0 /\ prefs.snooze_until > now)

NotInBackoff == ~(dmBlocked /\ now < dmNextCheck)

NextDueElapsed == prefs.next_ts <= now

\* C6 as stated: at every nudge send the user is unconfirmed today, not
\* snoozed, not in DM-blocked backoff and due, whatever ran while the
\* tick was suspended.
C6_Original ==
  [][NudgeSendIssued
       => /\ NotConfirmedToday /\ NotSnoozed
          /\ NotInBackoff /\ NextDueElapsed]_vars

\* C6: a nudge sent by a tick that awaited no lookup goes to a user who is
\* unconfirmed today, not snoozed, not in DM-blocked backoff and due; a
\* nudge sent right after the awaited membership lookup goes to a user
\* who is due and not in backoff.
C6_NudgeConditions ==
  [][/\ (NudgeSendIssued /\ nudPc = "idle")
          => /\ NotConfirmedToday /\ NotSnoozed
             /\ NotInBackoff /\ NextDueElapsed
     /\ (NudgeSendIssued /\ nudPc = "member")
          => NotInBackoff /\ NextDueElapsed]_vars

\* A nudge is being sent by a tick that awaited nothing, to a user whose
\* earlier refusal has run out its retry delay.
C6_Witness ==
  /\ nudPc = "send"
  /\ nudNow = now
  /\ dmBlocked /\ dmNextCheck <= now
  /\ NotConfirmedToday /\ NotSnoozed /\ NextDueElapsed

-----------------------------------------------------------------------------
(* Pomodoro: properties *)

\* The session dicts some variable of the program refers to after the step
LiveAfter == {chanSession', advRef', startRef'} \ {0}

\* C1: for a session that exists before and after a step, the step either
\* keeps phase and cycle_count, or completes a focus (cycle_count + 1, then
\* long break iff the new count is a multiple of cycles_before_long, else
\* short break), or completes a break (to focus, cycle_count unchanged).
C1_CycleAndPhaseSequence ==
  [][\A s \in Sids :
       (sessions[s].active /\ sessions'[s].active /\ s \in LiveAfter) =>
         LET a == sessions[s]
             b == sessions'[s]
         IN \/ b.phase = a.phase /\ b.cycle = a.cycle
            \/ /\ a.phase = "foco"
               /\ b.cycle = a.cycle + 1
               /\ b.phase = IF b.cycle % config.cycles_before_long = 0
                              THEN "pausa_longa" ELSE "pausa_curta"
            \/ /\ a.phase \in {"pausa_curta", "pausa_longa"}
               /\ b.phase = "foco"
               /\ b.cycle = a.cycle]_vars

\* A session has completed a focus and the break after it.
C1_Witness ==
  \E s \in Sids : /\ sessions[s].active
                  /\ sessions[s].phase = "foco"
                  /\ sessions[s].cycle >= 1

\* The tick of this step brings remaining to 0.
TickReachesZero == PomodoroTick /\ TickRemaining = 0

\* Exactly one phase transition: the phase moves one step along
\* focus -> break -> focus, and remaining is the new phase's duration.
OneTransition ==
  LET a == sessions[chanSession]
      b == sessions'[chanSession]
  IN /\ IF a.phase = "foco"
          THEN b.phase \in {"pausa_curta", "pausa_longa"} /\ b.cycle = a.cycle + 1
          ELSE b.phase = "foco" /\ b.cycle = a.cycle
     /\ b.remaining = CASE b.phase = "foco" -> config.focus_seconds
                        [] b.phase = "pausa_curta" -> config.short_break_seconds
                        [] b.phase = "pausa_longa" -> config.long_break_seconds

\* C2 as stated: every tick that brings remaining to 0 performs exactly one
\* phase transition and resets remaining to the new phase's duration.
C2_Original == [][TickReachesZero => OneTransition]_vars

\* C2, amended: every tick that brings remaining to 0 while the session's
\* channel resolves to a text channel performs exactly one phase transition
\* and resets remaining to the new phase's duration; when the channel does
\* not resolve, the tick performs no transition and remaining stays 0.
C2_OneTransitionPerTick ==
  [][TickReachesZero =>
       IF chanText THEN OneTransition
       ELSE /\ sessions'[chanSession].phase = sessions[chanSession].phase
            /\ sessions'[chanSession].cycle = sessions[chanSession].cycle
            /\ sessions'[chanSession].remaining = 0]_vars

\* A tick overshot the end of a focus and is sending the phase message.
C2_Witness ==
  /\ pomoEv = "advance"
  /\ pomoPc = "send_phase"
  /\ sessions[advRef].phase \in {"pausa_curta", "pausa_longa"}
  /\ sessions[advRef].remaining > 0

\* C3: no step changes remaining of a session that is paused, and a tick
\* of a session resumed at time r takes off remaining no more than the time
\* elapsed since r (a tick that ends the phase does so only when the whole
\* remaining time has elapsed since r).
C3_PauseFreezesRemaining ==
  [][/\ \A s \in Sids :
          (sessions[s].paused /\ s \in LiveAfter) =>
             sessions'[s].remaining = sessions[s].remaining
     /\ (PomodoroTick /\ resumedAt[chanSession] >= 0) =>
          LET a == sessions[chanSession]
              b == sessions'[chanSession]
              elapsed == now - resumedAt[chanSession]
          IN IF b.phase = a.phase
               THEN a.remaining - b.remaining <= elapsed
               ELSE a.remaining <= elapsed]_vars

\* A tick has taken time off a session that was paused and resumed before.
C3_Witness ==
  /\ pomoEv = "tick"
  /\ chanSession # 0
  /\ resumedAt[chanSession] > 0
  /\ sessions[chanSession].remaining > 0
  /\ sessions[chanSession].last_ts > resumedAt[chanSession]

-----------------------------------------------------------------------------
(* Streaks: _rotina_user_streak and _rotina_stats *)

\* _rotina_user_streak: the confirmed days counted backward from `day`
\* while the user's flag is set; `days` are the user's confirmed days.
RECURSIVE rotina_user_streak(_, _)
rotina_user_streak(days, day) ==
  IF day \in days THEN 1 + rotina_user_streak(days, day - 1) ELSE 0

\* sorted(confirmations.keys()): the k-th day key in ascending order
SortedDay(days, k) ==
  CHOOSE d \in days : Cardinality({e \in days : e < d}) = k - 1

\* Variant of StatsUpdate whose streak restarts at 0 after a gap.
StatsUpdate_ResetZero(info, day) ==
  [total |-> info.total + 1,
   streak |-> IF info.last_day = -1 \/ day - info.last_day > 1 THEN 0
              ELSE IF day - info.last_day = 1 THEN info.streak + 1
              ELSE Max(info.streak, 1),
   last_day |-> day]

\* The body of the loop of _rotina_stats for one confirmed day of the user
StatsUpdate(info, day) ==
  [total |-> info.total + 1,
   streak |-> IF info.last_day = -1 \/ day - info.last_day > 1 THEN 1
              ELSE IF day - info.last_day = 1 THEN info.streak + 1
              ELSE Max(info.streak, 1),
   last_day |-> day]

\* cutoff of _rotina_stats
StatsCutoff == stToday - StatWindowBack

\* The loop of _rotina_stats visits the next day key: days before the
\* cutoff are skipped.
StatsStep ==
  /\ ~stDone
  /\ stPos < Cardinality(stHist)
  /\ LET day == SortedDay(stHist, stPos + 1) IN
       stInfo' = IF day < StatsCutoff THEN stInfo ELSE StatsUpdate(stInfo, day)
  /\ stPos' = stPos + 1
  /\ UNCHANGED <<stHist, stToday, stDone>>
  /\ UNCHANGED <<engineVars, storeVars, achVars, extVars>>

\* The loop is over: last_day is popped from the user's info.
StatsFinish ==
  /\ ~stDone
  /\ stPos = Cardinality(stHist)
  /\ stInfo' = [stInfo EXCEPT !.last_day = -1]
  /\ stDone' = TRUE
  /\ UNCHANGED <<stHist, stToday, stPos>>
  /\ UNCHANGED <<engineVars, storeVars, achVars, extVars>>

\* The call is made on some day with some history of the user up to then.
StatsInit ==
  /\ now = 0 /\ EngineStateInit /\ StoreStateInit /\ AchStateInit
  /\ ExtStateInit
  /\ stToday \in 0..StatMaxDay
  /\ stHist \in SUBSET (0..stToday)
  /\ stPos = 0
  /\ stInfo = NoInfo
  /\ stDone = FALSE

StatsNext == StatsStep \/ StatsFinish

StatsSpec == StatsInit /\ [][StatsNext]_vars

\* The length of the run of consecutive days of `days` that ends at its
\* latest day
LatestRun(days) ==
  IF days = {} THEN 0
  ELSE rotina_user_streak(days, CHOOSE d \in days : \A e \in days : e <= d)

\* The whole history lies in the trailing window.
HistInWindow == \A d \in stHist : d >= StatsCutoff

\* C18: for a history inside the trailing window the leaderboard streak is
\* the length of the user's latest run of consecutive confirmed days: 1 on
\* the first confirmed day after a gap, one more on each next consecutive
\* day, and unchanged on a day that is not after the last one seen.
C18_LeaderboardStreak ==
  /\ []((stDone /\ HistInWindow) => stInfo.streak = LatestRun(stHist))
  /\ [](stInfo.last_day # -1 =>
          \A d \in 0..stInfo.last_day :
            StatsUpdate(stInfo, d).streak = stInfo.streak)
  /\ [][(stPos' = stPos + 1 /\ stInfo' # stInfo) =>
          stInfo'.streak = IF stInfo.last_day # -1
                                /\ stInfo'.last_day = stInfo.last_day + 1
                             THEN stInfo.streak + 1 ELSE 1]_vars

\* A history with a one-day gap: two days, a gap, then two consecutive days.
C18_Witness ==
  /\ stDone
  /\ stToday = 5
  /\ stHist = {2, 4, 5}
  /\ stInfo.streak = 2
  /\ stInfo.total = 3

\* C19: the streak of achievement reconciliation, _rotina_user_streak
\* counted back from the day of the call, equals the streak that
\* _rotina_stats reports for the same history and user.
C19_SameStreak ==
  stDone => stInfo.streak = rotina_user_streak(stHist, stToday)

-----------------------------------------------------------------------------
(* Persistence: JsonStore.save, _save_locked, _write_file and load *)

\* A handler or an engine mutates the in-memory document.
Mutate ==
  /\ memVer < MaxVer
  /\ memVer' = memVer + 1
  /\ storeEv' = "mutate"
  /\ UNCHANGED <<diskMain, diskTmp, savePc>>
  /\ UNCHANGED nonStoreVars

\* Variant of SaveOpen that opens self.path itself for writing.
SaveOpen_InPlace ==
  /\ savePc = "idle"
  /\ diskMain' = [ver |-> memVer, complete |-> FALSE]
  /\ savePc' = "opened"
  /\ storeEv' = "open"
  /\ UNCHANGED <<memVer, diskTmp>>
  /\ UNCHANGED nonStoreVars

\* save takes the lock and _write_file opens the temp file with mode "w":
\* the temp file exists and is empty.
SaveOpen ==
  /\ savePc = "idle"
  /\ diskTmp' = [ver |-> memVer, complete |-> FALSE]
  /\ savePc' = "opened"
  /\ storeEv' = "open"
  /\ UNCHANGED <<memVer, diskMain>>
  /\ UNCHANGED nonStoreVars

\* json.dump has written the whole document and the file is closed; the
\* event loop may have mutated the document while the executor thread
\* wrote it.
SaveDump ==
  /\ savePc = "opened"
  /\ \E v \in diskTmp.ver..memVer :
       diskTmp' = [ver |-> v, complete |-> TRUE]
  /\ savePc' = "closed"
  /\ storeEv' = "dump"
  /\ UNCHANGED <<memVer, diskMain>>
  /\ UNCHANGED nonStoreVars

\* json.dump or the write raised: the exception leaves _write_file before
\* os.replace and the lock is released.
SaveDumpFails ==
  /\ savePc = "opened"
  /\ savePc' = "idle"
  /\ storeEv' = "dump_failed"
  /\ UNCHANGED <<memVer, diskMain, diskTmp>>
  /\ UNCHANGED nonStoreVars

\* os.replace(tmp_path, self.path), then the lock is released.
SaveReplace ==
  /\ savePc = "closed"
  /\ diskMain' = diskTmp
  /\ diskTmp' = NoFile
  /\ savePc' = "idle"
  /\ storeEv' = "replace"
  /\ UNCHANGED memVer
  /\ UNCHANGED nonStoreVars

\* The process dies at any point and is started again: load reads the
\* file at self.path when it exists and keeps the default state otherwise
\* or when the file cannot be parsed.
Crash ==
  /\ memVer' = IF diskMain.ver # -1 /\ diskMain.complete THEN diskMain.ver ELSE 0
  /\ savePc' = "idle"
  /\ storeEv' = "crash"
  /\ UNCHANGED <<diskMain, diskTmp>>
  /\ UNCHANGED nonStoreVars

StoreInit == now = 0 /\ OtherInit

StoreNext ==
  \/ Mutate
  \/ SaveOpen
  \/ SaveDump
  \/ SaveDumpFails
  \/ SaveReplace
  \/ Crash

StoreSpec == StoreInit /\ [][StoreNext]_vars

-----------------------------------------------------------------------------
(* Achievements: _rotina_monthly_counts, _process_rotina_achievements,
   _remove_role_from_member, _remove_rotina_role and the commands
   /rotinaadmin conquista_streak, conquista_topmensal and their removers *)

\* strftime("%Y-%m") of a local day
Month(d) == d \div MonthLen

\* counts[uid] of _rotina_monthly_counts
MonthCount(conf, u, key) == Cardinality({d \in conf[u] : Month(d) = key})

\* Variant of RanksBefore whose last key component is the id itself.
RanksBefore_IdDesc(conf, key, day, a, b) ==
  LET ca == MonthCount(conf, a, key)
      cb == MonthCount(conf, b, key)
      sa == rotina_user_streak(conf[a], day)
      sb == rotina_user_streak(conf[b], day) IN
  \/ ca > cb
  \/ ca = cb /\ sa > sb
  \/ ca = cb /\ sa = sb /\ a > b

\* The sort of _rotina_monthly_counts puts a before b: the key
\* (count, streak, -uid) of a is the greater one, as reverse=True asks.
RanksBefore(conf, key, day, a, b) ==
  LET ca == MonthCount(conf, a, key)
      cb == MonthCount(conf, b, key)
      sa == rotina_user_streak(conf[a], day)
      sb == rotina_user_streak(conf[b], day) IN
  \/ ca > cb
  \/ ca = cb /\ sa > sb
  \/ ca = cb /\ sa = sb /\ (0 - a) > (0 - b)

\* _rotina_monthly_counts: the users with a confirmation in the month, in
\* the order of the sort (the counts are left out of the items).
rotina_monthly_counts(conf, key, day) ==
  LET us == {u \in AchUsers : MonthCount(conf, u, key) > 0}
      n == Cardinality(us) IN
  CHOOSE sq \in [1..n -> us] :
    \A i \in 1..n : \A j \in 1..n :
      i < j => RanksBefore(conf, key, day, sq[i], sq[j])

\* counts[0] of _process_rotina_achievements, 0 when counts is empty
MonthlyTop(conf, key, day) ==
  LET counts == rotina_monthly_counts(conf, key, day) IN
  IF Len(counts) = 0 THEN 0 ELSE counts[1]

\* Variant of StreakDue that asks for a streak longer than the threshold.
StreakDue_Strict(cfg, lastT, streak, held) ==
  {t \in cfg : t > lastT /\ streak > t /\ t \notin held}

\* The entries of streak_roles after the one of lastT whose role the loop
\* requests: the streak reaches the days and the member lacks the role.
StreakDue(cfg, lastT, streak, held) ==
  {t \in cfg : t > lastT /\ streak >= t /\ t \notin held}

\* Variant of NeedsGrant that requests the grant whatever the member holds.
NeedsGrant_Always(u, held) == TRUE

\* `role not in member.roles`: the test before every add_roles
NeedsGrant(u, held) == u \notin held

\* `role in member.roles`: the test of _remove_role_from_member
NeedsRevoke(u, held) == u \in held

\* Variant of MonthAfter that stores the month only next to a winner.
MonthAfter_OnlyWithWinner(mon, key) ==
  IF mon.winner # 0 THEN [mon EXCEPT !.month = key] ELSE mon

\* monthly["month"] = month_key, the last statement of both branches
MonthAfter(mon, key) == [mon EXCEPT !.month = key]

\* _process_rotina_achievements from a point between two awaits to its
\* next awaited role call, or to its end (pc "idle"). c holds the locals
\* and the monthly_top dict, e what the run reads: the roles held, the
\* confirmations, the day, the configured thresholds, the user's streak.
RECURSIVE AchPoint(_, _, _)
AchPoint(stage, c, e) ==
  LET key == Month(e.day) IN
  CASE stage = "streak" ->
         LET due == StreakDue(e.cfg, c.t, e.streak, e.sHeld) IN
         IF due # {}
           THEN LET t == CHOOSE x \in due : \A y \in due : x <= y IN
                [c EXCEPT !.pc = "streak_grant", !.target = c.user,
                          !.t = t, !.asked = c.asked \cup {t}]
           ELSE AchPoint("monthly", c, e)
    [] stage = "monthly" ->
         IF ~c.mon.role THEN [c EXCEPT !.pc = "idle"]
         ELSE LET c1 == [c EXCEPT !.top = MonthlyTop(e.conf, key, e.day),
                                  !.prev = c.mon.winner] IN
              IF c.mon.month # -1 /\ c.mon.month # key /\ c.mon.winner # 0
                THEN LET c2 == [c1 EXCEPT !.rolled = c.mon.winner,
                                          !.target = c.mon.winner] IN
                     IF NeedsRevoke(c.mon.winner, e.tHeld)
                       THEN [c2 EXCEPT !.pc = "roll_revoke"]
                       ELSE AchPoint("after_roll", c2, e)
                ELSE AchPoint("rank", c1, e)
    [] stage = "after_roll" ->
         AchPoint("rank", [c EXCEPT !.mon.winner = 0, !.prev = 0], e)
    [] stage = "rank" ->
         IF c.top # 0
           THEN IF c.prev # c.top
                  THEN IF c.prev # 0 /\ NeedsRevoke(c.prev, e.tHeld)
                         THEN [c EXCEPT !.pc = "swap_revoke", !.target = c.prev]
                         ELSE AchPoint("grant", c, e)
                  ELSE IF NeedsGrant(c.top, e.tHeld)
                         THEN [c EXCEPT !.pc = "repair_grant", !.target = c.top]
                         ELSE AchPoint("fin_month", c, e)
           ELSE IF c.prev # 0
                  THEN IF NeedsRevoke(c.prev, e.tHeld)
                         THEN [c EXCEPT !.pc = "empty_revoke", !.target = c.prev]
                         ELSE AchPoint("fin_empty", c, e)
                  ELSE AchPoint("fin_month", c, e)
    [] stage = "grant" ->
         IF NeedsGrant(c.top, e.tHeld)
           THEN [c EXCEPT !.pc = "top_grant", !.target = c.top]
           ELSE AchPoint("fin_swap", c, e)
    [] stage = "fin_swap" ->
         [c EXCEPT !.pc = "idle",
                   !.mon = MonthAfter([c.mon EXCEPT !.winner = c.top], key)]
    [] stage = "fin_empty" ->
         [c EXCEPT !.pc = "idle",
                   !.mon = MonthAfter([c.mon EXCEPT !.winner = 0], key)]
    [] OTHER ->
         [c EXCEPT !.pc = "idle", !.mon = MonthAfter(c.mon, key)]

\* The point of the run that follows the return of the awaited call
AchStageAfter(pc) ==
  CASE pc = "streak_grant" -> "streak"
    [] pc = "roll_revoke" -> "after_roll"
    [] pc = "swap_revoke" -> "grant"
    [] pc = "top_grant" -> "fin_swap"
    [] pc = "repair_grant" -> "fin_month"
    [] OTHER -> "fin_empty"

GrantPcs == {"streak_grant", "top_grant", "repair_grant"}

RevokePcs == {"roll_revoke", "swap_revoke", "empty_revoke", "cfg_revoke"}

\* The locals of a run and the monthly_top dict as one record
AchCtx(loc, pc, mon) ==
  [pc |-> pc, user |-> loc.user, t |-> loc.t, target |-> loc.target,
   prev |-> loc.prev, top |-> loc.top, rolled |-> loc.rolled,
   asked |-> loc.asked, mon |-> mon]

AchLocOf(c) ==
  [user |-> c.user, t |-> c.t, target |-> c.target, prev |-> c.prev,
   top |-> c.top, rolled |-> c.rolled, asked |-> c.asked]

\* What a run for u reads: member.roles of u, the holders of the
\* monthly-top role, the confirmations, the day, streak_roles, u's streak
AchEnv(u, sHeld, tHeld, conf, cfg) ==
  [sHeld |-> sHeld[u], tHeld |-> tHeld, conf |-> conf, day |-> achDay,
   cfg |-> cfg, streak |-> rotina_user_streak(conf[u], achDay)]

\* The assignments of a run that went from one point to the next
AchAdvance(c) ==
  /\ achPc' = c.pc
  /\ achLoc' = IF c.pc = "idle"
                THEN [AchLocOf(c) EXCEPT !.t = 0, !.target = 0, !.prev = 0]
                ELSE AchLocOf(c)
  /\ monthly' = c.mon
  /\ achEv' = IF c.pc = "idle" THEN "done" ELSE "run"

\* _process_rotina_achievements(rotina, u) from its call to its first
\* awaited role call. found: the channel resolved and u is a member of its
\* guild. same: the caller changed nothing before the call.
AchStart(u, found, same, conf, cfg, mon) ==
  /\ achRunFailed' = FALSE
  /\ IF found
       THEN /\ AchAdvance(AchPoint("streak",
                                   AchCtx([NoLoc EXCEPT !.user = u], "idle", mon),
                                   AchEnv(u, streakHeld, topHeld, conf, cfg)))
            /\ achRepeat' = IF same /\ achEv = "done" /\ achLoc.user = u
                              THEN IF achRunFailed THEN "failed" ELSE "clean"
                              ELSE "no"
            /\ achAnyFail' = achAnyFail
       ELSE /\ achPc' = "idle"
            /\ achLoc' = [NoLoc EXCEPT !.user = u]
            /\ monthly' = mon
            /\ achEv' = "early"
            /\ achRepeat' = "no"
            /\ achAnyFail' = TRUE

\* confirmar_rotina for today: records the confirmation and awaits the
\* reconciliation for u.
ConfirmAndReconcile(u) ==
  /\ achPc = "idle"
  /\ \E found \in BOOLEAN :
       LET conf == [achConf EXCEPT ![u] = @ \cup {achDay}] IN
       /\ achConf' = conf
       /\ AchStart(u, found, achDay \in achConf[u], conf, streakCfg, monthly)
  /\ UNCHANGED <<achDay, streakCfg, streakHeld, topHeld>>
  /\ UNCHANGED nonAchVars

\* /rotinaadmin conquista_streak by admin a: the entry of dias is updated or
\* appended, the list sorted, and the reconciliation for a is spawned.
admin_conquista_streak(a, dias) ==
  /\ achPc = "idle"
  /\ streakCfg' = streakCfg \cup {dias}
  /\ \E found \in BOOLEAN :
       AchStart(a, found, FALSE, achConf, streakCfg \cup {dias}, monthly)
  /\ UNCHANGED <<achDay, achConf, streakHeld, topHeld>>
  /\ UNCHANGED nonAchVars

\* /rotinaadmin conquista_streak_remover: no run is spawned.
admin_conquista_streak_remover(dias) ==
  /\ achPc = "idle"
  /\ dias \in streakCfg
  /\ streakCfg' = streakCfg \ {dias}
  /\ achLoc' = NoLoc
  /\ achEv' = "other"
  /\ achRepeat' = "no"
  /\ achRunFailed' = FALSE
  /\ UNCHANGED <<achDay, achConf, streakHeld, monthly, topHeld, achPc,
                 achAnyFail>>
  /\ UNCHANGED nonAchVars

\* /rotinaadmin conquista_topmensal by admin a: role set, winner and month
\* cleared, and the reconciliation for a is spawned.
admin_conquista_topmensal(a) ==
  /\ achPc = "idle"
  /\ \E found \in BOOLEAN :
       AchStart(a, found, FALSE, achConf, streakCfg,
                [role |-> TRUE, winner |-> 0, month |-> -1])
  /\ UNCHANGED <<achDay, achConf, streakCfg, streakHeld, topHeld>>
  /\ UNCHANGED nonAchVars

\* /rotinaadmin conquista_topmensal_remover: the dict is cleared and, when
\* a role was set, _remove_rotina_role is spawned for the stored winner.
admin_conquista_topmensal_remover ==
  /\ achPc = "idle"
  /\ monthly' = NoMonthly
  /\ achRepeat' = "no"
  /\ achRunFailed' = FALSE
  /\ \E found \in BOOLEAN :
       LET w == monthly.winner
           calls == monthly.role /\ w # 0 /\ found /\ NeedsRevoke(w, topHeld) IN
       /\ achPc' = IF calls THEN "cfg_revoke" ELSE "idle"
       /\ achLoc' = IF calls THEN [NoLoc EXCEPT !.target = w] ELSE NoLoc
       /\ achEv' = IF calls THEN "cfg_run" ELSE "other"
       /\ achAnyFail' = (achAnyFail \/ (monthly.role /\ w # 0 /\ ~found))
  /\ UNCHANGED <<achDay, achConf, streakCfg, streakHeld, topHeld>>
  /\ UNCHANGED nonAchVars

\* Variant of StreakHeldAfter in which the new role replaces the others.
StreakHeldAfter_Exact(held, t) == {t}

\* member.roles after add_roles of the role of threshold t succeeded
StreakHeldAfter(held, t) == held \cup {t}

\* The roles after the awaited call of pc succeeded
HeldAfterCall(pc, loc) ==
  [s |-> IF pc = "streak_grant"
           THEN [streakHeld EXCEPT ![loc.user] = StreakHeldAfter(@, loc.t)]
           ELSE streakHeld,
   t |-> IF pc \in RevokePcs THEN topHeld \ {loc.target}
         ELSE IF pc = "streak_grant" THEN topHeld
         ELSE topHeld \cup {loc.target}]

\* The run after its awaited call returned, with the roles as they are then
AchResume(sHeld, tHeld) ==
  IF achPc = "cfg_revoke"
    THEN /\ achPc' = "idle"
         /\ achLoc' = NoLoc
         /\ achEv' = "other"
         /\ UNCHANGED monthly
    ELSE AchAdvance(AchPoint(AchStageAfter(achPc),
                             AchCtx(achLoc, achPc, monthly),
                             AchEnv(achLoc.user, sHeld, tHeld, achConf,
                                    streakCfg)))

\* The awaited add_roles / remove_roles succeeds.
CallOk ==
  /\ achPc # "idle"
  /\ LET h == HeldAfterCall(achPc, achLoc) IN
     /\ streakHeld' = h.s
     /\ topHeld' = h.t
     /\ AchResume(h.s, h.t)
  /\ UNCHANGED <<achDay, achConf, streakCfg, achRepeat, achRunFailed,
                 achAnyFail>>
  /\ UNCHANGED nonAchVars

\* The awaited call raises: the exception is logged and the run goes on.
CallFails ==
  /\ achPc # "idle"
  /\ AchResume(streakHeld, topHeld)
  /\ achRunFailed' = TRUE
  /\ achAnyFail' = TRUE
  /\ UNCHANGED <<achDay, achConf, streakCfg, streakHeld, topHeld, achRepeat>>
  /\ UNCHANGED nonAchVars

\* Local midnight passes while no reconciliation is in flight.
NextDay ==
  /\ achPc = "idle"
  /\ achDay < AchMaxDay
  /\ achDay' = achDay + 1
  /\ achLoc' = NoLoc
  /\ achEv' = "other"
  /\ achRepeat' = "no"
  /\ achRunFailed' = FALSE
  /\ UNCHANGED <<achConf, streakCfg, streakHeld, monthly, topHeld, achPc,
                 achAnyFail>>
  /\ UNCHANGED nonAchVars

\* The members who run the /rotinaadmin commands
AchAdmins == {1}

AchInit == now = 0 /\ OtherInit

AchNext ==
  \/ \E u \in AchUsers : ConfirmAndReconcile(u)
  \/ \E a \in AchAdmins : \E dias \in ThresholdChoices :
       admin_conquista_streak(a, dias)
  \/ \E dias \in ThresholdChoices : admin_conquista_streak_remover(dias)
  \/ \E a \in AchAdmins : admin_conquista_topmensal(a)
  \/ admin_conquista_topmensal_remover
  \/ CallOk
  \/ CallFails
  \/ NextDay

AchSpec == AchInit /\ [][AchNext]_vars

-----------------------------------------------------------------------------
(* Achievements: properties *)

\* The streak of the user of the running or just finished reconciliation
RunStreak == rotina_user_streak(achConf[achLoc.user], achDay)

\* C11: reconciliation requests the grant of the streak role of threshold t
\* only when the user's consecutive-day streak ending today is at least t
\* (and the user lacks the role), and a finished run has requested it for
\* every configured threshold the streak reaches whose role the user lacked.
C11_StreakGrant ==
  /\ achPc = "streak_grant" =>
       /\ RunStreak >= achLoc.t
       /\ achLoc.t \notin streakHeld[achLoc.user]
  /\ achEv \in {"run", "done"} => \A t \in achLoc.asked : RunStreak >= t
  /\ achEv = "done" =>
       \A t \in streakCfg :
         RunStreak >= t => t \in streakHeld[achLoc.user] \/ t \in achLoc.asked

\* Days 0, 1, 2 confirmed with threshold 3: the run of day 2 asked for the
\* role and the user holds it.
C11_Witness ==
  /\ achEv = "done" /\ achDay = 2 /\ achLoc.user = 2
  /\ achConf[2] = {0, 1, 2}
  /\ 3 \in achLoc.asked /\ 3 \in streakHeld[2]

\* C12: once a streak role has been granted to a user no step of any later
\* reconciliation takes it away, whatever the user's streak has become.
C12_StreakRoleKept ==
  [][\A u \in AchUsers : streakHeld[u] \subseteq streakHeld'[u]]_vars

\* A run for user 1 finished on a day on which the streak is shorter than
\* the configured threshold 2, and user 1 still holds the role of 2.
C12_Witness ==
  /\ achEv = "done" /\ achLoc.user = 1 /\ achDay = 2
  /\ 2 \in streakCfg /\ 2 \in streakHeld[1]
  /\ RunStreak < 2

\* The users with a confirmation in the current local month
Counted == {u \in AchUsers : MonthCount(achConf, u, Month(achDay)) > 0}

\* v does not beat w on confirmations of the month, then on streak
NotBeatenBy(w, v) ==
  LET cw == MonthCount(achConf, w, Month(achDay))
      cv == MonthCount(achConf, v, Month(achDay))
      sw == rotina_user_streak(achConf[w], achDay)
      sv == rotina_user_streak(achConf[v], achDay) IN
  cw > cv \/ (cw = cv /\ sw >= sv)

TiedWith(w, v) == NotBeatenBy(w, v) /\ NotBeatenBy(v, w)

\* C13 as stated: the winner a finished run stores leads on count, then on
\* streak, and has the highest id among the users tied with it.
C13_Original ==
  (achEv = "done" /\ monthly.role /\ Counted # {}) =>
     /\ monthly.winner \in Counted
     /\ \A v \in Counted :
          /\ NotBeatenBy(monthly.winner, v)
          /\ TiedWith(monthly.winner, v) => monthly.winner >= v

\* C13 (amended): the monthly ranking orders users by current-month
\* confirmation count descending, then current streak descending, then
\* user id ascending: the winner a finished run stores leads on count, then
\* on streak, and has the lowest id among the users tied with it.
C13_LowestIdWinsTies ==
  (achEv = "done" /\ monthly.role /\ Counted # {}) =>
     /\ monthly.winner \in Counted
     /\ \A v \in Counted :
          /\ NotBeatenBy(monthly.winner, v)
          /\ TiedWith(monthly.winner, v) => monthly.winner <= v

\* Users 1 and 2 are tied on count and streak and the finished run stored
\* user 1 as the winner and gave user 1 the role.
C13_Witness ==
  /\ achEv = "done" /\ monthly.role
  /\ Counted = {1, 2} /\ TiedWith(1, 2)
  /\ monthly.winner = 1 /\ topHeld = {1}

\* C14: when the first reconciliation of a later month finds A stored as
\* the winner of an earlier month and another user leads the new month,
\* the run leaves A without the monthly-top role.
C14_MonthlyTransfer ==
  (/\ achEv = "done"
   /\ achLoc.rolled # 0 /\ achLoc.top # 0 /\ achLoc.top # achLoc.rolled) =>
     achLoc.rolled \notin topHeld

\* C15 as stated: after every run for a routine with a monthly-top role,
\* the early returns included, the stored month is the current local month.
C15_Original ==
  (achEv \in {"done", "early"} /\ monthly.role) =>
     monthly.month = Month(achDay)

\* C15 (amended): after every run that found the routine's channel and the
\* triggering member, for a routine with a monthly-top role, the stored
\* month is the current local month, with or without a winner.
C15_MonthKeyCurrent ==
  (achEv = "done" /\ monthly.role) => monthly.month = Month(achDay)

\* A run started by the admin in month 1, in which nobody has confirmed,
\* stored month 1 and no winner.
C15_Witness ==
  /\ achEv = "done" /\ monthly.role
  /\ Counted = {} /\ monthly.winner = 0
  /\ achDay = 2 /\ monthly.month = 1

\* C16: while no reconciliation is in flight and every role call so far
\* succeeded (and every lookup found its referent), at most one member holds
\* the monthly-top role and that member is the stored winner.
C16_SingleHolderIsWinner ==
  (achPc = "idle" /\ ~achAnyFail) =>
     /\ Cardinality(topHeld) <= 1
     /\ \A u \in topHeld : monthly.winner = u

-----------------------------------------------------------------------------
(* Start-up: JsonStore.load and JsonStore._merge_default *)

\* The variables of the parts before this one
oldVars == <<engineVars, statVars, storeVars, achVars>>

\* Top-level fields a snapshot file may hold: the default ones and one that
\* default_state() does not know
SnapKeys == DefaultKeys \cup {"legacy"}

\* The values a snapshot may hold under a field. "null": not a dict;
\* "no_tz": a settings dict without default_timezone.
SnapValues(k) ==
  CASE k = "reminders" -> {"none", "some"}
    [] k = "next_ids" -> {"ids1", "ids5", "null"}
    [] k = "settings" -> {"tz_default", "tz_set", "no_tz", "null"}
    [] OTHER -> {"x"}

\* The JSON objects a snapshot file may hold
Snapshots ==
  UNION {{f \in [D -> UNION {SnapValues(k) : k \in D}] :
            \A k \in D : f[k] \in SnapValues(k)} : D \in SUBSET SnapKeys}

\* base.setdefault("_next_ids", {}).update(...) raises on a non-dict
MergeRaises(loaded) ==
  "next_ids" \in DOMAIN loaded /\ loaded["next_ids"] = "null"

\* _merge_default: every key of default_state() takes the loaded value when
\* there is one; a settings dict gets default_timezone when it lacks it.
merge_default(loaded) ==
  [k \in DefaultKeys |->
     IF k \in DOMAIN loaded
       THEN IF k = "settings" /\ loaded[k] = "no_tz"
              THEN "tz_default" ELSE loaded[k]
       ELSE default_state[k]]

nonLoadVars == <<now, oldVars, idSt, sumSt, taskSt, reactSt, quietSt, lockSt,
  dumpSt>>

\* load, the file exists and holds a JSON object
LoadExisting ==
  /\ loadSt.pc = "file" /\ loadSt.kind = "dict"
  /\ loadSt' = IF MergeRaises(loadSt.snap)
                 THEN [loadSt EXCEPT !.pc = "raised"]
                 ELSE [loadSt EXCEPT !.pc = "loaded",
                                     !.mem = merge_default(loadSt.snap)]
  /\ UNCHANGED nonLoadVars

\* load, the file cannot be parsed or holds no JSON object: logged, or
\* skipped by the isinstance test; self._data stays default_state()
LoadUnreadable ==
  /\ loadSt.pc = "file" /\ loadSt.kind = "garbage"
  /\ loadSt' = [loadSt EXCEPT !.pc = "unread"]
  /\ UNCHANGED nonLoadVars

\* load, no file: the defaults are saved
LoadMissing ==
  /\ loadSt.pc = "file" /\ loadSt.kind = "missing"
  /\ loadSt' = [loadSt EXCEPT !.pc = "created", !.kind = "dict",
                              !.snap = loadSt.mem]
  /\ UNCHANGED nonLoadVars

LoadInit ==
  /\ now = 0 /\ EngineStateInit
  /\ StatStateInit /\ StoreStateInit /\ AchStateInit
  /\ IdStateInit /\ SumStateInit /\ TaskStateInit /\ ReactStateInit
  /\ QuietStateInit /\ LockStateInit
  /\ DumpStateInit
  /\ \E kind \in {"missing", "garbage", "dict"} :
       \E f \in (IF kind = "dict" THEN Snapshots ELSE {default_state}) :
         loadSt = [pc |-> "file", kind |-> kind, snap |-> f,
                   mem |-> default_state]

LoadNext == LoadExisting \/ LoadUnreadable \/ LoadMissing

LoadSpec == LoadInit /\ [][LoadNext]_vars

-----------------------------------------------------------------------------
(* Start-up: properties *)

\* The value load keeps for a field: the loaded one, a settings dict
\* without default_timezone having received the default one
KeptValue(k, v) == IF k = "settings" /\ v = "no_tz" THEN "tz_default" ELSE v

\* C21: after load of an existing snapshot every top-level field of the
\* snapshot is in the state with its loaded value, and every default field
\* the snapshot lacks is there with its default: load drops no loaded field.
C21_LoadKeepsFields ==
  (loadSt.pc \in {"loaded", "raised"}) =>
     /\ \A k \in DOMAIN loadSt.snap :
          /\ k \in DOMAIN loadSt.mem
          /\ loadSt.mem[k] = KeptValue(k, loadSt.snap[k])
     /\ \A k \in DefaultKeys \ DOMAIN loadSt.snap :
          /\ k \in DOMAIN loadSt.mem
          /\ loadSt.mem[k] = default_state[k]

-----------------------------------------------------------------------------
(* Ids: _next_id, the creating and deleting commands, and a restart *)

nonIdVars == <<now, oldVars, loadSt, sumSt, taskSt, reactSt, quietSt, lockSt,
  dumpSt>>

\* Variant of next_id that numbers after the entities now in the store.
next_id_AfterLast(ids, items, key) ==
  IF Len(items[key]) = 0 THEN 1 ELSE items[key][Len(items[key])] + 1

\* _next_id: the id it returns; the counter is left one above it
next_id(ids, items, key) == ids[key]

\* /lembrete criar, /habito criar, /rotinaadmin criar: an entity with the
\* next id of its kind is appended to the list of its kind.
CreateEntity(k) ==
  /\ Cardinality(idSt.hist[k]) < MaxIds
  /\ LET id == next_id(idSt.next, idSt.items, k) IN
     idSt' = [next |-> [idSt.next EXCEPT ![k] = id + 1],
              items |-> [idSt.items EXCEPT ![k] = Append(@, id)],
              hist |-> [idSt.hist EXCEPT ![k] = @ \cup {id}]]
  /\ UNCHANGED nonIdVars

\* /habito deletar, /rotinaadmin deletar: the i-th entity of the list is
\* removed; the counter is not touched.
DeleteEntity(k, i) ==
  /\ k \in {"habit", "global_habit"}
  /\ i \in 1..Len(idSt.items[k])
  /\ idSt' = [idSt EXCEPT !.items[k] =
                [j \in 1..(Len(@) - 1) |-> IF j < i THEN @[j] ELSE @[j + 1]]]
  /\ UNCHANGED nonIdVars

\* _merge_default on the counters: the loaded _next_ids when the snapshot
\* has one, the defaults otherwise
LoadedIds(doc) ==
  IF "next_ids" \in DOMAIN doc THEN doc["next_ids"] ELSE [k \in Kinds |-> 1]

\* The process stops and starts again: the state is loaded from the
\* snapshot its last save wrote.
Restart ==
  /\ LET doc == [x \in {"next_ids"} |-> idSt.next] IN
     idSt' = [idSt EXCEPT !.next = LoadedIds(doc)]
  /\ UNCHANGED nonIdVars

IdInit == now = 0 /\ OtherInit

IdNext ==
  \/ \E k \in Kinds : CreateEntity(k)
  \/ \E k \in Kinds : \E i \in 1..MaxIds : DeleteEntity(k, i)
  \/ Restart

IdSpec == IdInit /\ [][IdNext]_vars

-----------------------------------------------------------------------------
(* Ids: properties *)

\* C22: no two entities of a kind in the store share an id, and every newly
\* assigned id is greater than every id assigned before for that kind.
C22_IdsUniqueIncreasing ==
  /\ [](\A k \in Kinds :
          \A i \in 1..Len(idSt.items[k]) : \A j \in 1..Len(idSt.items[k]) :
            i # j => idSt.items[k][i] # idSt.items[k][j])
  /\ [][\A k \in Kinds :
          Len(idSt'.items[k]) > Len(idSt.items[k]) =>
            \A x \in idSt.hist[k] : idSt'.items[k][Len(idSt'.items[k])] > x]_vars

\* Habit 1 was created and deleted, and the next habit got id 2.
C22_Witness ==
  /\ idSt.items["habit"] = <<2>>
  /\ idSt.hist["habit"] = {1, 2}

-----------------------------------------------------------------------------
(* Routines: further properties *)

\* C23: once the confirmation of a day is true, no tick of the announcement
\* or nudge loop and no command or interaction handler makes it false.
C23_ConfirmationKept ==
  [][\A d \in 0..MaxDay : confirmations[d] => confirmations'[d]]_vars

\* The user has confirmed day 0, whose announcement is recorded, the
\* announcement pass is over and the clock has moved past the slot.
C23_Witness ==
  /\ confirmations[0]
  /\ announcements[0] # {} /\ annPc = "idle"
  /\ prefs.enrolled /\ prefs.next_ts = now + Max(1, prefs.interval)
  /\ now > 2

\* The announcement loop records a publication in this step.
AnnRecorded == annPc = "react" /\ annPc' # "react"

SnoozedNow == prefs.snooze_until # 0 /\ prefs.snooze_until > now

\* C28 as stated: a publication sets next_ts of every enrolled user who is
\* not snoozed to now and leaves next_ts of a snoozed user unchanged.
C28_Original ==
  [][(AnnRecorded /\ prefs.enrolled) =>
        IF SnoozedNow THEN prefs'.next_ts = prefs.next_ts
                      ELSE prefs'.next_ts = now]_vars

\* C28, amended: a publication sets next_ts to now for every enrolled user
\* who has DMs on, has not confirmed the local day of the announcement and
\* is not snoozed, and leaves next_ts of every other enrolled user
\* unchanged.
C28_PublishResetsDue ==
  [][(AnnRecorded /\ prefs.enrolled) =>
        IF prefs.dm /\ ~confirmations[DayKey(annNow)] /\ ~SnoozedNow
          THEN prefs'.next_ts = now
          ELSE prefs'.next_ts = prefs.next_ts]_vars

\* The tick of this minute published the slot and the enrolled user, with
\* DMs on, unconfirmed and whose snooze has run out, is due right now.
C28_Witness ==
  /\ annPc = "idle" /\ annNow = now
  /\ LocalSlot(now) \in announcements[DayKey(now)]
  /\ annPublished[DayKey(now)][LocalSlot(now)] = 1
  /\ prefs.enrolled /\ prefs.dm /\ ~confirmations[DayKey(now)]
  /\ prefs.snooze_until # 0 /\ prefs.snooze_until <= now
  /\ prefs.next_ts = now

-----------------------------------------------------------------------------
(* Daily summary: rotina_summary_loop *)

nonSumVars == <<now, oldVars, loadSt, idSt, taskSt, reactSt, quietSt, lockSt,
  dumpSt>>

\* Minutes of a local day in the summary model; the last SumWindow of them
\* are the end-of-day window (hour 23, minute >= 50)
SumDayLen == 5

SumWindow == 2

SumDay(t) == t \div SumDayLen

InSummaryWindow(t) == t % SumDayLen >= SumDayLen - SumWindow

\* Variant of SummaryDue without the guard on guild_state.
SummaryDue_Always(last, today) == TRUE

\* `last_sent == today: continue`
SummaryDue(last, today) == last # today

\* A minute passes, in or between ticks.
SumClock ==
  /\ sumSt.t < (SumMaxDay + 1) * SumDayLen - 1
  /\ sumSt' = [sumSt EXCEPT !.t = @ + 1]
  /\ UNCHANGED nonSumVars

\* confirmar_rotina: the user confirms a routine of the guild today.
SumConfirm ==
  /\ SumDay(sumSt.t) \notin sumSt.conf
  /\ sumSt' = [sumSt EXCEPT !.conf = @ \cup {SumDay(sumSt.t)}]
  /\ UNCHANGED nonSumVars

\* A tick inside the window meets the user, who confirmed today and has no
\* summary recorded today; _ensure_member answers from the cache or is
\* awaited.
SumTick ==
  /\ sumSt.pc = "idle"
  /\ InSummaryWindow(sumSt.t)
  /\ SumDay(sumSt.t) \in sumSt.conf
  /\ SummaryDue(sumSt.last, SumDay(sumSt.t))
  /\ sumSt.delivered[SumDay(sumSt.t)] < 2
  /\ \E cached \in BOOLEAN :
       sumSt' = [sumSt EXCEPT !.pc = IF cached THEN "send" ELSE "member",
                              !.today = SumDay(sumSt.t)]
  /\ UNCHANGED nonSumVars

\* A tick inside the window meets the user and skips: summary recorded.
SumSkip ==
  /\ sumSt.pc = "idle"
  /\ InSummaryWindow(sumSt.t)
  /\ SumDay(sumSt.t) \in sumSt.conf
  /\ ~SummaryDue(sumSt.last, SumDay(sumSt.t))
  /\ sumSt' = [sumSt EXCEPT !.deduped = TRUE]
  /\ UNCHANGED nonSumVars

\* _ensure_member returns the member / None.
SumMember ==
  /\ sumSt.pc = "member"
  /\ \E found \in BOOLEAN :
       sumSt' = [sumSt EXCEPT !.pc = IF found THEN "send" ELSE "idle"]
  /\ UNCHANGED nonSumVars

\* member.send returns: the day is recorded in guild_state.
SumSent ==
  /\ sumSt.pc = "send"
  /\ sumSt' = [sumSt EXCEPT !.pc = "idle", !.last = sumSt.today,
                            !.delivered[sumSt.today] = @ + 1]
  /\ UNCHANGED nonSumVars

\* member.send raises (Forbidden or another error): nothing is recorded.
SumSendFails ==
  /\ sumSt.pc = "send"
  /\ sumSt' = [sumSt EXCEPT !.pc = "idle"]
  /\ UNCHANGED nonSumVars

SumInit == now = 0 /\ OtherInit

SumNext ==
  \/ SumClock
  \/ SumConfirm
  \/ SumTick
  \/ SumSkip
  \/ SumMember
  \/ SumSent
  \/ SumSendFails

SummarySpec == SumInit /\ [][SumNext]_vars

-----------------------------------------------------------------------------
(* Daily summary: properties *)

\* C24: for the guild, the user and each local day, the summary is
\* delivered at most once, however many ticks fall inside the window.
C24_SummaryAtMostOnce ==
  \A d \in 0..SumMaxDay : sumSt.delivered[d] <= 1

\* The summary of day 0 was delivered and a later tick inside the window
\* of day 0 skipped the user.
C24_Witness ==
  /\ sumSt.delivered[0] = 1 /\ sumSt.deduped
  /\ SumDay(sumSt.t) = 0

-----------------------------------------------------------------------------
(* The periodic tasks: the try / except / sleep frame of the six loops *)

nonTaskVars == <<now, oldVars, loadSt, idSt, sumSt, reactSt, quietSt, lockSt,
  dumpSt>>

\* Variant of AfterRaise in which the exception leaves the loop.
AfterRaise_Propagates(kind) == "done"

\* Where a task is after an exception reached the handlers of its loop:
\* CancelledError is re-raised and ends the task, any other Exception is
\* logged and the loop goes to its sleep.
AfterRaise(kind) == IF kind = "CancelledError" THEN "done" ELSE "sleep"

\* asyncio.sleep returns and the loop, not closed, starts its next tick.
Wake(e) ==
  /\ ~taskSt.closed
  /\ taskSt.pc[e] = "sleep"
  /\ taskSt' = [taskSt EXCEPT !.pc[e] = "tick", !.failed[e] = FALSE,
                              !.again = @ \/ taskSt.failed[e]]
  /\ UNCHANGED nonTaskVars

\* An outbound call of the tick raises inside its own try: logged, and the
\* tick goes on.
TickCallFails(e) ==
  /\ taskSt.pc[e] = "tick"
  /\ ~taskSt.failed[e]
  /\ taskSt' = [taskSt EXCEPT !.failed[e] = TRUE]
  /\ UNCHANGED nonTaskVars

\* The save of the tick, or another statement outside the inner handlers,
\* raises an Exception.
TickRaises(e) ==
  /\ taskSt.pc[e] = "tick"
  /\ taskSt' = [taskSt EXCEPT !.pc[e] = AfterRaise("Exception"),
                              !.failed[e] = TRUE]
  /\ UNCHANGED nonTaskVars

\* The tick reaches its end and the loop sleeps.
TickEnds(e) ==
  /\ taskSt.pc[e] = "tick"
  /\ taskSt' = [taskSt EXCEPT !.pc[e] = "sleep"]
  /\ UNCHANGED nonTaskVars

\* close(): every task is cancelled.
Close ==
  /\ ~taskSt.closed
  /\ taskSt' = [taskSt EXCEPT !.closed = TRUE,
                              !.pc = [e \in Engines |-> AfterRaise("CancelledError")]]
  /\ UNCHANGED nonTaskVars

TaskInit == now = 0 /\ OtherInit

TaskNext ==
  \/ \E e \in Engines : Wake(e)
  \/ \E e \in Engines : TickCallFails(e)
  \/ \E e \in Engines : TickRaises(e)
  \/ \E e \in Engines : TickEnds(e)
  \/ Close

\* The sleep of a loop returns, and a tick's awaited calls return or raise.
TaskSpec ==
  /\ TaskInit /\ [][TaskNext]_vars
  /\ \A e \in Engines : WF_vars(Wake(e) \/ TickEnds(e))

-----------------------------------------------------------------------------
(* The periodic tasks: properties *)

\* C25: an exception raised inside a tick ends neither the task of its
\* engine nor that of another engine, and the engine whose tick raised
\* starts another tick (unless the bot is closed).
C25_ExceptionsKeepTasksAlive ==
  /\ [](~taskSt.closed => \A e \in Engines : taskSt.pc[e] # "done")
  /\ [][\A e \in Engines :
          (taskSt'.failed[e] /\ ~taskSt.failed[e]) =>
             \A f \in Engines \ {e} : taskSt'.pc[f] = taskSt.pc[f]]_vars
  /\ \A e \in Engines :
       (taskSt.failed[e] /\ ~taskSt.closed)
          ~> ((taskSt.pc[e] = "tick" /\ ~taskSt.failed[e]) \/ taskSt.closed)

\* An engine whose tick raised has started another tick while the task of
\* another engine sleeps after an exception of its own.
C25_Witness ==
  /\ taskSt.again /\ ~taskSt.closed
  /\ taskSt.pc["reminder"] = "tick" /\ ~taskSt.failed["reminder"]
  /\ taskSt.pc["pomodoro"] = "sleep" /\ taskSt.failed["pomodoro"]

-----------------------------------------------------------------------------
(* Reactions on announcements: the announcements dict written by
   rotina_anuncio_loop and read by _handle_rotina_reaction *)

nonReactVars == <<now, oldVars, loadSt, idSt, sumSt, taskSt, quietSt, lockSt,
  dumpSt>>

\* The slots of a local day, and the `times` entry of each
ReactDayLen == 2
ReactUsers == {1, 2}
SlotKey(i) == IF i = 0 THEN "08:00" ELSE "20:00"
ReactDay(t) == t \div ReactDayLen
ReactSlot(t) == SlotKey(t % ReactDayLen)

\* dict.get(key) of a dict whose values under `key` are message ids; 0 is
\* None
DictGet(dict, key) == IF key \in DOMAIN dict THEN dict[key] ELSE 0

\* The daily dict after lines 641-647: an old-format entry
\* {"message_id": ...} is moved under "__legacy__", anything else that is a
\* dict is kept.
NormalDaily(daily) ==
  IF "message_id" \in DOMAIN daily
    THEN "__legacy__" :> [message_id |-> daily["message_id"]]
    ELSE daily

\* A version of the bot that stored one announcement per day published
\* message `msgs + 1` for today and left {"message_id": id} in the file.
LegacyPublished ==
  /\ reactSt.pc = "idle"
  /\ reactSt.msgs < MaxMsgs
  /\ reactSt.ann[ReactDay(reactSt.t)] = NoDict
  /\ reactSt' = [reactSt EXCEPT
       !.msgs = @ + 1,
       !.ann[ReactDay(reactSt.t)] = "message_id" :> (reactSt.msgs + 1)]
  /\ UNCHANGED nonReactVars

\* rotina_anuncio_loop at the minute of an entry of `times`, up to its
\* await channel.send
ReactAnnTick ==
  /\ reactSt.pc = "idle"
  /\ reactSt.msgs < MaxMsgs
  /\ LET today == ReactDay(reactSt.t)
         entry == ReactSlot(reactSt.t)
         daily == NormalDaily(reactSt.ann[today]) IN
       reactSt' = [reactSt EXCEPT
         !.ann[today] = daily,
         !.pc = IF entry \in DOMAIN daily THEN "idle" ELSE "send",
         !.entry = IF entry \in DOMAIN daily THEN "" ELSE entry,
         !.day = IF entry \in DOMAIN daily THEN 0 ELSE today]
  /\ UNCHANGED nonReactVars

\* channel.send returned the message: daily[entry] = {"message_id": ...}
ReactAnnSent ==
  /\ reactSt.pc = "send"
  /\ LET id == reactSt.msgs + 1
         daily == reactSt.ann[reactSt.day] IN
       reactSt' = [reactSt EXCEPT
         !.msgs = id,
         !.published = @ \cup {<<reactSt.day, id>>},
         !.ann[reactSt.day] =
            (reactSt.entry :> [message_id |-> id]) @@ daily,
         !.pc = "idle", !.entry = "", !.day = 0]
  /\ UNCHANGED nonReactVars

\* channel.send raised
ReactAnnFails ==
  /\ reactSt.pc = "send"
  /\ reactSt' = [reactSt EXCEPT !.pc = "idle", !.entry = "", !.day = 0]
  /\ UNCHANGED nonReactVars

\* _handle_rotina_reaction on a reaction of user u to message mid, with
\* the routine's emoji or another one; confirmar_rotina up to its first
\* await when the tests pass.
handle_rotina_reaction(u, mid, emoji) ==
  /\ LET today == ReactDay(reactSt.t)
         ann == reactSt.ann[today]
         hit == /\ ann # NoDict
                /\ DictGet(ann, "message_id") = mid
                /\ emoji IN
       reactSt' = [reactSt EXCEPT
         !.conf = IF hit THEN @ \cup {<<today, u>>} ELSE @,
         !.last = [mid |-> mid, user |-> u, emoji |-> emoji, day |-> today]]
  /\ UNCHANGED nonReactVars

ReactClock ==
  /\ ReactDay(reactSt.t + 1) <= ReactMaxDay
  /\ reactSt' = [reactSt EXCEPT !.t = @ + 1]
  /\ UNCHANGED nonReactVars

ReactInit == now = 0 /\ OtherInit

ReactNext ==
  \/ LegacyPublished
  \/ ReactAnnTick
  \/ ReactAnnSent
  \/ ReactAnnFails
  \/ \E u \in ReactUsers, mid \in 1..MaxMsgs, emoji \in BOOLEAN :
       /\ mid <= reactSt.msgs
       /\ handle_rotina_reaction(u, mid, emoji)
  \/ ReactClock

ReactSpec == ReactInit /\ [][ReactNext]_vars

-----------------------------------------------------------------------------
(* Reactions on announcements: properties *)

\* C26: after a user's reaction with the routine's emoji to an
\* announcement message that rotina_anuncio_loop published on the current
\* local day, a confirmation of that user for that day is recorded.
C26_ReactionConfirms ==
  (/\ reactSt.last.emoji
   /\ <<reactSt.last.day, reactSt.last.mid>> \in reactSt.published)
     => <<reactSt.last.day, reactSt.last.user>> \in reactSt.conf

\* The one kind of announcement on which a reaction is recorded: an entry
\* in the old one-per-day format.
ReactLegacyConfirmed ==
  /\ reactSt.last.emoji
  /\ <<reactSt.last.day, reactSt.last.mid>> \notin reactSt.published
  /\ <<reactSt.last.day, reactSt.last.user>> \in reactSt.conf

-----------------------------------------------------------------------------
(* The nudge window: prefs["quiet"], /rotina preferencias and the window
   test of rotina_dm_loop *)

nonQuietVars == <<now, oldVars, loadSt, idSt, sumSt, taskSt, reactSt, lockSt,
  dumpSt>>

\* The clock values the nudge loop meets: 05:30, 06:00, 12:00, 23:00 and
\* 23:30 UTC of day 0
QuietTimes == <<19800, 21600, 43200, 82800, 84600>>
QuietNow == QuietTimes[quietSt.t]

\* Values of janela_inicio and janela_fim: not given, valid, invalid
WindowTexts == {NoTime, <<6, 0>>, <<22, 0>>, <<24, 0>>}

\* The enrollments loaded at start-up: the default window, or an entry
\* written without a start
LoadedQuiet == {DefaultQuiet, [start |-> NoTime, end |-> <<23, 0>>]}

\* Variant of NudgeWindowOk that lets the nudge through outside the window.
NudgeWindowOk_Outside(ts, quiet, tz) ==
  ~is_within_window(ts, quiet.start, quiet.end, tz)

\* The test of lines 754-756: the loop goes on to the send only when
\* _is_within_window holds of now_ts and the user's window.
NudgeWindowOk(ts, quiet, tz) ==
  is_within_window(ts, quiet.start, quiet.end, tz)

\* /rotina preferencias with janela_inicio and janela_fim: a given value
\* that does not parse ends the command, after the values before it were
\* stored.
preferencias(start, end) ==
  /\ LET badStart == start # NoTime /\ parse_hhmm(start) = NoTime
         badEnd == end # NoTime /\ parse_hhmm(end) = NoTime
         s == IF start = NoTime \/ badStart THEN quietSt.quiet.start ELSE start
         e == IF end = NoTime \/ badStart \/ badEnd
                THEN quietSt.quiet.end ELSE end IN
       quietSt' = [quietSt EXCEPT !.quiet = [start |-> s, end |-> e]]
  /\ UNCHANGED nonQuietVars

\* rotina_dm_loop reads now_ts and reaches await _ensure_member for the
\* user.
QuietTick ==
  /\ quietSt.pc = "idle"
  /\ quietSt' = [quietSt EXCEPT !.pc = "member", !.nudNow = QuietNow,
                                !.last = "none"]
  /\ UNCHANGED nonQuietVars

\* _ensure_member returned the member: the window is tested, and the loop
\* reaches await user.send or passes over the user.
QuietMemberFound ==
  /\ quietSt.pc = "member"
  /\ LET ok == NudgeWindowOk(quietSt.nudNow, quietSt.quiet, quietSt.tz) IN
       quietSt' = [quietSt EXCEPT
         !.pc = IF ok THEN "send" ELSE "idle",
         !.read = IF ok THEN quietSt.quiet ELSE @,
         !.last = IF ok THEN @ ELSE "skipped"]
  /\ UNCHANGED nonQuietVars

\* _ensure_member returned None
QuietMemberAbsent ==
  /\ quietSt.pc = "member"
  /\ quietSt' = [quietSt EXCEPT !.pc = "idle"]
  /\ UNCHANGED nonQuietVars

\* user.send returned: the nudge is delivered
QuietSent ==
  /\ quietSt.pc = "send"
  /\ quietSt' = [quietSt EXCEPT !.pc = "idle", !.sent = TRUE,
                                !.last = "sent"]
  /\ UNCHANGED nonQuietVars

\* user.send raised
QuietSendFails ==
  /\ quietSt.pc = "send"
  /\ quietSt' = [quietSt EXCEPT !.pc = "idle"]
  /\ UNCHANGED nonQuietVars

QuietClock ==
  /\ quietSt.t < Len(QuietTimes)
  /\ quietSt' = [quietSt EXCEPT !.t = @ + 1]
  /\ UNCHANGED nonQuietVars

QuietInit ==
  /\ now = 0 /\ PomoStateInit /\ RemStateInit /\ WinStateInit /\ DmStateInit
  /\ HabStateInit /\ RotStateInit /\ StatStateInit /\ StoreStateInit
  /\ AchStateInit /\ LoadStateInit /\ IdStateInit /\ SumStateInit
  /\ TaskStateInit /\ ReactStateInit /\ LockStateInit /\ DumpStateInit
  /\ \E q \in LoadedQuiet, tz \in {0, 3600} :
       quietSt = [t |-> 1, tz |-> tz, quiet |-> q, pc |-> "idle",
                  nudNow |-> 0, read |-> DefaultQuiet, sent |-> FALSE,
                  last |-> "none"]

QuietNext ==
  \/ \E start \in WindowTexts, end \in WindowTexts : preferencias(start, end)
  \/ QuietTick
  \/ QuietMemberFound
  \/ QuietMemberAbsent
  \/ QuietSent
  \/ QuietSendFails
  \/ QuietClock

QuietSpec == QuietInit /\ [][QuietNext]_vars

-----------------------------------------------------------------------------
(* The nudge window: properties *)

\* The local time of ts lies inside the window {start, end}, ends included,
\* a window whose start is later than its end spanning midnight.
InsideWindow(ts, quiet, tz) ==
  /\ parse_hhmm(quiet.start) # NoTime /\ parse_hhmm(quiet.end) # NoTime
  /\ LET m == MinutesNow(ts, tz)
         a == quiet.start[1] * 60 + quiet.start[2]
         b == quiet.end[1] * 60 + quiet.end[2] IN
       IF a <= b THEN a <= m /\ m <= b ELSE m >= a \/ m <= b

\* C27 as stated: no nudge is sent at a local time inside the user's
\* configured window {start, end}.
C27_Original ==
  [][(quietSt.last # "sent" /\ quietSt'.last = "sent") =>
        ~InsideWindow(QuietNow, quietSt.quiet, quietSt.tz)]_vars

\* C27, amended: no nudge is sent by a tick whose local time lies outside
\* the window {start, end} that the tick read for the user; a window with
\* a missing or unparsable bound leaves no time outside.
C27_NudgeOnlyInsideWindow ==
  (quietSt.pc = "send" \/ quietSt.last = "sent") =>
     \/ InsideWindow(quietSt.nudNow, quietSt.read, quietSt.tz)
     \/ parse_hhmm(quietSt.read.start) = NoTime
     \/ parse_hhmm(quietSt.read.end) = NoTime

\* With the window 06:00-23:00 a nudge was delivered, and a later tick at
\* 23:30 passed over the user.
C27_Witness ==
  /\ quietSt.sent /\ quietSt.tz = 0
  /\ quietSt.quiet = DefaultQuiet /\ quietSt.read = DefaultQuiet
  /\ quietSt.nudNow = 84600 /\ quietSt.last = "skipped"

-----------------------------------------------------------------------------
(* The two nudge loops side by side: habito_loop and rotina_dm_loop on one
   user, from a habit and an enrolment already made *)

\* Intervals of the habit and of the enrolment, in units of 5 minutes
NudgeIntervals == {1, 2}

\* The state after /habito criar, /rotinaadmin criar, /rotina entrar and
\* the publication of slot 0 of local day 0
BackoffInit ==
  /\ now = DmEpoch
  /\ PomoStateInit /\ RemStateInit /\ WinStateInit /\ DmStateInit
  /\ AuxStateInit
  /\ \E iv \in NudgeIntervals :
       habit = [exists |-> TRUE, active |-> TRUE, goal |-> 1,
                interval |-> iv, next_ts |-> 0,
                progress |-> [d \in 0..MaxDay |-> 0],
                last_message |-> FALSE]
  /\ habPc = "idle" /\ habNow = 0 /\ habBlk = NoBlk
  /\ rotina = [exists |-> TRUE, active |-> TRUE, times |-> <<0>>]
  /\ announcements = [d \in 0..MaxDay |-> IF d = 0 THEN {0} ELSE {}]
  /\ annPublished =
       [d \in 0..MaxDay |-> [sl \in Slots |-> IF d = 0 /\ sl = 0 THEN 1 ELSE 0]]
  /\ confirmations = [d \in 0..MaxDay |-> FALSE]
  /\ \E iv \in NudgeIntervals :
       prefs = [enrolled |-> TRUE, dm |-> TRUE, interval |-> iv,
                next_ts |-> 0, snooze_until |-> 0]
  /\ annPc = "idle" /\ annIdx = 0 /\ annTimes = <<>> /\ annNow = 0
  /\ nudPc = "idle" /\ nudNow = 0 /\ nudBlk = NoBlk
  /\ annDeduped = FALSE /\ dmViewSent = FALSE

\* The clock of the two loops
BackoffClock == now < BackoffMaxTime /\ DmClock

BackoffNext ==
  \/ HabitTick
  \/ HabitMemberFound
  \/ HabitMemberAbsent
  \/ HabitUserFound
  \/ HabitUserAbsent
  \/ HabitSent
  \/ HabitReacted
  \/ HabitSendForbidden
  \/ HabitNoticeSent
  \/ HabitNoticeFails
  \/ HabitSendFails
  \/ NudgeTick
  \/ NudgeMemberFound
  \/ NudgeMemberAbsent
  \/ NudgeUserFound
  \/ NudgeUserAbsent
  \/ NudgeSent
  \/ NudgeSendForbidden
  \/ NudgeNoticeSent
  \/ NudgeNoticeFails
  \/ NudgeSendFails
  \/ BackoffClock

BackoffSpec == BackoffInit /\ [][BackoffNext]_vars

-----------------------------------------------------------------------------
(* The two nudge loops side by side: properties *)

-----------------------------------------------------------------------------
(* The save lock: JsonStore.save, asyncio.Lock, run_in_executor and the
   cancellation of the periodic tasks by close() *)

nonLockVars ==
  <<now, oldVars, loadSt, idSt, sumSt, taskSt, reactSt, quietSt, dumpSt>>

\* The savers that are periodic tasks of bg_tasks
BgSavers == {"habito", "pomodoro"}

\* The first of the waiters that was not cancelled, as a set
NextHolder(waiters, gone) ==
  LET live == {i \in 1..Len(waiters) : waiters[i] \notin gone} IN
  IF live = {} THEN {}
  ELSE {waiters[CHOOSE i \in live : \A j \in live : i <= j]}

\* The waiters without the savers of `out`
Without(waiters, out) == SelectSeq(waiters, LAMBDA w : w \notin out)

\* The lock passes to the first live waiter, whose _save_locked hands
\* _write_file to an executor thread, or becomes free; `gone` are the
\* savers that left (cancelled), `done` the coroutine that returns, if any.
LockRelease(gone, done) ==
  LET next == NextHolder(lockSt.waiters, gone) IN
  [lockSt EXCEPT
     !.locked = next # {},
     !.waiters = Without(lockSt.waiters, gone \cup next),
     !.thread = [s \in Savers |-> IF s \in next THEN "start" ELSE @[s]],
     !.pc = [s \in Savers |->
               IF s \in gone THEN "cancelled"
               ELSE IF s \in next THEN "write"
               ELSE IF s \in done THEN "idle"
               ELSE @[s]]]

\* A coroutine calls save(): `async with self.lock` takes the free lock
\* and run_in_executor starts _write_file, or the coroutine waits in line.
SaveRequest(s) ==
  /\ lockSt.pc[s] = "idle"
  /\ s \in BgSavers => ~lockSt.closed
  /\ lockSt' =
       IF ~lockSt.locked /\ lockSt.waiters = <<>>
         THEN [lockSt EXCEPT !.locked = TRUE, !.pc[s] = "write",
                             !.thread[s] = "start"]
         ELSE [lockSt EXCEPT !.pc[s] = "wait",
                             !.waiters = Append(@, s)]
  /\ UNCHANGED nonLockVars

\* _write_file in its thread: open(tmp, "w") and json.dump
WriteTmp(s) ==
  /\ lockSt.thread[s] = "start"
  /\ lockSt' = [lockSt EXCEPT !.thread[s] = "tmp"]
  /\ UNCHANGED nonLockVars

\* _write_file in its thread: os.replace(tmp, path), and the thread ends
WriteReplace(s) ==
  /\ lockSt.thread[s] = "tmp"
  /\ lockSt' = [lockSt EXCEPT !.thread[s] = "none"]
  /\ UNCHANGED nonLockVars

\* The coroutine that awaited the thread resumes and leaves `async with`:
\* the lock is released.
SaveReturns(s) ==
  /\ lockSt.pc[s] = "write"
  /\ lockSt.thread[s] = "none"
  /\ lockSt' = LockRelease({}, {s})
  /\ UNCHANGED nonLockVars

\* close(): task.cancel() on every periodic task.  A task waiting for the
\* lock leaves the line; a task awaiting run_in_executor gets
\* CancelledError at that await and leaves `async with`, which releases
\* the lock, while its thread goes on writing.
LockClose ==
  /\ ~lockSt.closed
  /\ LET holder == {s \in BgSavers : lockSt.pc[s] = "write"}
         after == IF holder # {}
                    THEN LockRelease(BgSavers, {})
                    ELSE [lockSt EXCEPT
                            !.waiters = Without(@, BgSavers),
                            !.pc = [s \in Savers |->
                                      IF s \in BgSavers THEN "cancelled"
                                      ELSE @[s]]] IN
       lockSt' = [after EXCEPT !.closed = TRUE]
  /\ UNCHANGED nonLockVars

LockInit == now = 0 /\ OtherInit

LockNext ==
  \/ \E s \in Savers : SaveRequest(s)
  \/ \E s \in Savers : WriteTmp(s)
  \/ \E s \in Savers : WriteReplace(s)
  \/ \E s \in Savers : SaveReturns(s)
  \/ LockClose

LockSpec == LockInit /\ [][LockNext]_vars

-----------------------------------------------------------------------------
(* The save lock: properties *)

\* The executor threads that are inside _write_file
WritesInProgress == {s \in Savers : lockSt.thread[s] # "none"}

\* C32: at most one physical write of the snapshot is in progress at any
\* time.
C32_OneWriteAtATime == Cardinality(WritesInProgress) <= 1

\* While no task was cancelled the lock does keep the writes apart.
LockHoldsWhileOpen == ~lockSt.closed => Cardinality(WritesInProgress) <= 1

-----------------------------------------------------------------------------
(* Pomodoro: further properties *)

\* A session existed on the channel and /pomodoro parar cleared it: only
\* parar (and the restart folded into send_pomodoro_start) set the session
\* to None.
StoppedNow == chanSession = 0 /\ nextSid > 0

\* C33: after a stop the channel has no session until the next start
\* command, and the stop leaves the config as it was, also when a tick is
\* suspended in a phase transition of the channel.
C33_StopClearsSession ==
  /\ [][(StoppedNow /\ chanSession' # 0) => pomoEv' = "start"]_vars
  /\ [][(chanSession # 0 /\ chanSession' = 0) => config' = config]_vars

\* The stop ran while _advance_pomodoro awaited its send, and the send has
\* returned: the dict the tick held is the channel's session again.
StopUndoneByTick ==
  /\ pomoEv = "phase_sent"
  /\ chanSession # 0
  /\ sessions[chanSession].active

\* C36: a join or leave on a channel without session leaves the session
\* absent.
C36_JoinLeaveCreateNoSession ==
  [][(chanSession = 0 /\ pomoEv' \in {"join", "leave"})
       => chanSession' = 0]_vars

\* A session nobody started: /pomodoro status shows it, pausar pauses it.
PhantomSession ==
  /\ chanSession # 0
  /\ ~sessions[chanSession].active
  /\ pomoEv \in {"join", "leave"}

\* The fields of a session a repeated pause must leave alone
SameSession(a, b) ==
  /\ a.phase = b.phase /\ a.remaining = b.remaining /\ a.cycle = b.cycle
  /\ a.participant = b.participant /\ a.paused = b.paused
  /\ a.active = b.active

\* C34: pausing a paused session changes none of phase, remaining, cycle,
\* participants and the paused flag, and while the session stays paused
\* (up to and including the resume) remaining stays what it was, so the
\* remaining time seen after the resume is that of a single pause.
C34_RepeatedPauseNoOp ==
  /\ [][(chanSession # 0 /\ sessions[chanSession].paused
         /\ pomoEv' = "pause_again")
          => /\ chanSession' = chanSession
             /\ SameSession(sessions[chanSession], sessions'[chanSession])]_vars
  /\ [][(chanSession # 0 /\ sessions[chanSession].paused
         /\ chanSession' = chanSession)
          => sessions'[chanSession].remaining
               = sessions[chanSession].remaining]_vars

\* A running session was paused, and paused again later on.
C34_Witness ==
  /\ pomoEv = "pause_again"
  /\ chanSession # 0
  /\ sessions[chanSession].active
  /\ sessions[chanSession].paused
  /\ sessions[chanSession].remaining > 0
  /\ sessions[chanSession].last_ts = now
  /\ now > 1

\* Running time of session s the loop has not yet subtracted
Owed(s) == IF s.active /\ ~s.paused THEN now - LastTs(s) ELSE 0

\* C40: a pause or resume command loses no running time: what the session
\* ran since the last tick is subtracted from remaining, so that the
\* decrease of remaining in a phase is the time spent unpaused.
C40_PauseResumeKeepElapsed ==
  [][(chanSession # 0 /\ chanSession' = chanSession
      /\ pomoEv' \in {"pause", "pause_again", "resume", "resume_again"})
       => sessions'[chanSession].remaining
            = Max(0, sessions[chanSession].remaining
                       - Owed(sessions[chanSession]))]_vars

\* A resume on a running session dropped the time run since the last tick.
ResumeDroppedTime ==
  /\ pomoEv = "resume_again"
  /\ chanSession # 0
  /\ sessions[chanSession].active
  /\ sessions[chanSession].last_ts = now
  /\ sessions[chanSession].phase = "foco"
  /\ sessions[chanSession].cycle = 0
  /\ sessions[chanSession].remaining = config.focus_seconds
  /\ now > 0

-----------------------------------------------------------------------------
(* Reminders: further properties *)

\* The tick goes on to user.send for the reminder at remIdx
ReminderSendIssued == remPc # "send" /\ remPc' = "send"

-----------------------------------------------------------------------------
(* Writing the live document: _save_locked hands self._data itself to the
   executor thread, which serialises it key by key (channels, reminders,
   the other lists, _next_ids, in the order of default_state) while the event loop goes on
   mutating it *)

nonDumpVars ==
  <<now, oldVars, loadSt, idSt, sumSt, taskSt, reactSt, quietSt, lockSt>>

\* The event loop changed the document to m
Mutated(m) == [dumpSt EXCEPT !.mem = m, !.seen = @ \cup {m}]

\* /lembrete criar: _next_id("reminder") and reminders.append, with no await in
\* between
DumpCriar ==
  /\ dumpSt.mem.reminders < MaxDump
  /\ dumpSt' = Mutated([dumpSt.mem EXCEPT !.reminders = @ + 1,
                                          !.next_reminder = @ + 1])
  /\ UNCHANGED nonDumpVars

\* /pomodoro iniciar on a channel without entry: channels.setdefault adds
\* a key
DumpIniciar ==
  /\ dumpSt.mem.channels < MaxDump
  /\ dumpSt' = Mutated([dumpSt.mem EXCEPT !.channels = @ + 1])
  /\ UNCHANGED nonDumpVars

\* The iteration over the channels dict ends: a dict that changed size
\* since the iteration began raises RuntimeError and the thread leaves
\* _write_file before os.replace; an empty dict was written as {} without
\* iterating
DictIterEnds(d) ==
  IF d.iterSize > 0 /\ d.mem.channels # d.iterSize
    THEN [d EXCEPT !.pc = "idle", !.ev = "failed"]
    ELSE [d EXCEPT !.tmp.channels = d.iterSize, !.pc = "reminders"]

\* run_in_executor: the thread opens the temp file and json.dump starts on
\* the first key, the channels dict
DumpBegin ==
  /\ dumpSt.pc = "idle"
  /\ dumpSt' = [dumpSt EXCEPT !.pc = "channels", !.tmp = NoDoc,
                              !.iterSize = dumpSt.mem.channels,
                              !.ev = "begin"]
  /\ UNCHANGED nonDumpVars

DumpChannels ==
  /\ dumpSt.pc = "channels"
  /\ dumpSt' = DictIterEnds(dumpSt)
  /\ UNCHANGED nonDumpVars

\* The reminders list is written as it is now
DumpReminders ==
  /\ dumpSt.pc = "reminders"
  /\ dumpSt' = [dumpSt EXCEPT !.tmp.reminders = dumpSt.mem.reminders,
                              !.pc = "next_ids"]
  /\ UNCHANGED nonDumpVars

\* _next_ids is written as it is now
DumpNextIds ==
  /\ dumpSt.pc = "next_ids"
  /\ dumpSt' = [dumpSt EXCEPT !.tmp.next_reminder = dumpSt.mem.next_reminder,
                              !.pc = "replace"]
  /\ UNCHANGED nonDumpVars

\* os.replace(tmp_path, self.path)
DumpReplace ==
  /\ dumpSt.pc = "replace"
  /\ dumpSt' = [dumpSt EXCEPT !.disk = dumpSt.tmp, !.pc = "idle",
                              !.ev = "written"]
  /\ UNCHANGED nonDumpVars

DumpInit == now = 0 /\ OtherInit

DumpNext ==
  \/ DumpCriar
  \/ DumpIniciar
  \/ DumpBegin
  \/ DumpChannels
  \/ DumpReminders
  \/ DumpNextIds
  \/ DumpReplace

DumpSpec == DumpInit /\ [][DumpNext]_vars

-----------------------------------------------------------------------------
(* Writing the live document: properties *)

\* C37: every snapshot on disk is the in-memory document as it was at one
\* instant, and no write fails because of a mutation made while it ran.
C37_SnapshotOfOneInstant ==
  /\ dumpSt.disk # NoDoc => dumpSt.disk \in dumpSt.seen
  /\ dumpSt.ev # "failed"

\* A snapshot on disk that the document never equalled: a reminder is missing
\* although its id is already used up.
TornSnapshot ==
  /\ dumpSt.disk # NoDoc
  /\ dumpSt.disk.next_reminder > dumpSt.disk.reminders + 1

\* A write that failed because a channel was added while it ran
WriteFailedByMutation ==
  /\ dumpSt.ev = "failed"
  /\ dumpSt.mem.channels > dumpSt.iterSize

-----------------------------------------------------------------------------
(* Achievements: the monthly-top role while confirmations go on *)

\* The monthly-top role was configured by /rotinaadmin conquista_topmensal
\* before anybody confirmed; no command changes the configuration later.
AchRetryInit ==
  /\ now = 0
  /\ EngineStateInit /\ StatStateInit /\ StoreStateInit /\ ExtStateInit
  /\ achDay = 0
  /\ achConf = [u \in AchUsers |-> {}]
  /\ streakCfg = {}
  /\ streakHeld = [u \in AchUsers |-> {}]
  /\ monthly = [role |-> TRUE, winner |-> 0, month |-> 0]
  /\ topHeld = {}
  /\ achPc = "idle"
  /\ achLoc = NoLoc
  /\ achEv = "other"
  /\ achRepeat = "no"
  /\ achRunFailed = FALSE
  /\ achAnyFail = FALSE

AchRetryNext ==
  \/ \E u \in AchUsers : ConfirmAndReconcile(u)
  \/ CallOk
  \/ CallFails
  \/ NextDay

\* An awaited role call returns or raises: no run stays suspended for ever.
AchRetrySpec ==
  /\ AchRetryInit
  /\ [][AchRetryNext]_vars
  /\ WF_vars(CallOk \/ CallFails)

\* Reconciliations of every user go on being made and completed: the
\* member was found and the run reached its end.
ReconcilingForever ==
  \A u \in AchUsers : []<>(achPc = "idle" /\ achEv = "done" /\ achLoc.user = u)

\* From some point on no awaited role call raises.
CallsSucceedAtLast == <>[](~achRunFailed)

\* A run that had to revoke the role from last month's winner w has ended,
\* a call of the run raised, and w still holds the role without being the
\* stored winner.
RevokeFailedFor(w) ==
  /\ achEv = "done"
  /\ achRunFailed
  /\ achLoc.rolled = w
  /\ w \in topHeld
  /\ monthly.winner # w

\* C38: after a failed revoke of the monthly-top role from a former
\* winner, if reconciliations go on and their calls succeed from some point
\* on, that member eventually no longer holds the role (or is the stored
\* winner again).
C38_FailedRevokeRetried ==
  \A w \in AchUsers :
    (ReconcilingForever /\ CallsSucceedAtLast)
      => [](RevokeFailedFor(w)
              => <>(w \notin topHeld \/ monthly.winner = w))

-----------------------------------------------------------------------------
(* Routines: the deferral of an absent member *)

\* next_ts lies further ahead than a nudge interval or a retry delay can
\* put it: it was deferred by a day, and the day has not elapsed.
DeferredByDay ==
  /\ prefs.enrolled
  /\ prefs.next_ts > now + Max(DmRetry, Max(1, prefs.interval))

\* C39: while the enrollee's next_ts is deferred by a day, no tick of the
\* nudge loop begins a membership lookup for the enrollee (the loop stays
\* idle for that user: nothing to change, nothing to save).
C39_DeferredEnrolleeLeftAlone ==
  [][(nudPc = "idle" /\ DeferredByDay) => nudPc' = "idle"]_vars

\* A membership lookup is awaited for an enrollee who is deferred by a day.
LookupWhileDeferred ==
  /\ nudPc = "member"
  /\ prefs.enrolled
  /\ prefs.next_ts = nudNow - 1 + DayLen
  /\ ~confirmations[DayKey(nudNow)]

====
